---- MODULE Spec2Model ----
(***************************************************************************)
(* A model of the resolution engine of clean_ioc (clean_ioc/core.py):      *)
(* the per-scope registries, the lookup of candidate registrations along   *)
(* the scope chain, _Registration.build with its three cache tiers (the    *)
(* per-call cache of a _ResolvingContext, the scoped cache of every Scope  *)
(* and the singleton cache of the Container).                              *)
(***************************************************************************)
EXTENDS Integers, Sequences, FiniteSets, TLC

VARIABLES
    regs,              \* every _Registration created so far; its index is its id
    registry,          \* Scope._registry._registrations : scope -> type -> deque of ids
    singletons,        \* Container._singletons          : id -> Node
    scoped_instances,  \* Scope._scoped_instances        : scope -> id -> Node
    acts,              \* history: id -> how often its implementation was invoked
    last,              \* history: the record of the last public call
    returned,          \* history: (scope, instance) pairs handed out by resolve calls
                       \* for scoped registrations
    handed,            \* history: the instances handed out for singleton registrations
    built,             \* history: (scope, instance) pairs: the instances of scoped
                       \* registrations and the scope whose resolve call made them
    acall,             \* the resolve_async call in progress: its _ResolvingContext,
                       \* its coroutines and the ready queue of the event loop
    peer,              \* the resolve_async call of a second caller that runs on
                       \* the same event loop
    twin,              \* history: what resolve would have returned and left in the
                       \* caches had it been called where the resolve_async call
                       \* in progress was
    decorators,        \* Scope._registry._decorators : scope -> type -> _DecoratorStore
    pre_configurations,\* Scope._registry._pre_configurations : scope -> type -> deque
                       \* of ids
    pcs,               \* every PreConfiguration created so far, with its has_run flag
                       \* and (history) the number of times its function was invoked
    finalizers,        \* Scope._finalizers : scope -> deque of finalizers
    teardowns,         \* Scope._sync_teardowns and Scope._async_teardowns :
                       \* scope -> the registration ids, in insertion order
    reg_id,            \* the value the last register call returned to its caller
    address,           \* container object -> id(container), its address while the
                       \* object is alive
    containers_where_instance_has_run,
                       \* bundle instance -> the list of container ids
    CONTAINERS_WHERE_CLASS_HAS_RUN,
                       \* OnlyRunOncePerClassBundle's dict: class -> list of ids
    apply_calls        \* history: the (bundle, container) pairs of the calls of
                       \* an apply body, in order

hookVars == <<decorators, pre_configurations, pcs>>
exitVars == <<finalizers, teardowns>>
bundleVars == <<address, containers_where_instance_has_run,
                CONTAINERS_WHERE_CLASS_HAS_RUN, apply_calls>>
extVars == <<reg_id, bundleVars, peer, twin>>

vars == <<regs, registry, singletons, scoped_instances, acts, last, returned, handed, built,
          acall, decorators, pre_configurations, pcs, finalizers, teardowns, reg_id,
          address, containers_where_instance_has_run, CONTAINERS_WHERE_CLASS_HAS_RUN,
          apply_calls, peer, twin>>

----------------------------------------------------------------------------
(* Bounds of the model.                                                     *)

MaxScope == 3      \* scopes are 0 (the Container) .. MaxScope
MaxRegs  == 3      \* register calls of the lookup specification
MaxAct   == 2      \* activations of one registration
MaxDecs  == 3      \* register_decorator calls
MaxPos   == 1      \* decorator positions are 0 .. MaxPos
MaxPcs   == 2      \* pre_configure calls
MaxHookDecs == 1   \* register_decorator calls of the hooks specification
MaxGenericRegs == 2   \* register calls of the generic specification
MaxImplRegs == 2      \* register calls with an implementation type
MaxContainers == 3    \* Container objects created
MaxAddress == 2       \* addresses of container objects are 1 .. MaxAddress
MaxApply == 3         \* apply_bundle calls
MaxDepth == 4         \* nested build calls the interpreter allows (its recursion limit)

----------------------------------------------------------------------------
(* Lifespan(IntEnum).                                                       *)

transient      == 0
once_per_graph == 1
scoped         == 2
singleton      == 3

Lifespans == {transient, once_per_graph, scoped, singleton}

----------------------------------------------------------------------------
(* The scope tree.  Scope 0 is the Container; scopes 1 and 2 are made by    *)
(* Container.new_scope and are siblings; scope s > 2 is made by new_scope   *)
(* of scope s - 2, so 3 is nested in 1.                                     *)

Container == 0
Scopes == 0..MaxScope
ChildScopes == 1..MaxScope

_parent_scope(s) == IF s <= 2 THEN Container ELSE s - 2

RECURSIVE ScopeChain(_)
ScopeChain(s) == IF s = Container THEN <<s>> ELSE <<s>> \o ScopeChain(_parent_scope(s))

AncestorsOrSelf(s) == {ScopeChain(s)[i] : i \in 1..Len(ScopeChain(s))}

----------------------------------------------------------------------------
(* The classes and factories the calls are made with.  A, B(a: A) and       *)
(* C(a: A, b: B) are the classes of the tests; EmptyA is a factory for A    *)
(* whose result is a new object that Python evaluates as false (an empty    *)
(* collection); AsyncA is an async factory for A, GenA a generator factory  *)
(* (it yields an A, and its code after the yield is the cleanup) and AGenA  *)
(* an async generator factory that yields without awaiting; CB is a factory *)
(* for C whose only parameter is b: B.                                      *)

Types == {"A", "B", "C"}
Impls == {"A", "EmptyA", "AsyncA", "GenA", "AGenA", "B", "C", "CB"}

\* ASelf is a subclass of A whose only parameter is a: A, and AB a subclass
\* of A whose only parameter is b: B
CyclicImpls == {"ASelf", "AB"}

\* Registrations of the class B whose parameter a: A is given a value: BDef
\* declares a default value for it (a: A = DefaultA) and is registered with
\* the default settings, BDefNo declares the same default and is registered
\* with dependency_config {"a": DependencySettings(value_factory=
\* dont_use_default_value)}, and BSet declares no default and is registered
\* with value_factory=set_value(SetA)
ValueImpls == {"BDef", "BDefNo", "BSet"}

\* The base class S and its subclasses SImpl and EmptySImpl, which
\* register(S, SImpl) takes as implementation_type; the objects of
\* EmptySImpl have length 0, so Python evaluates them as false
ImplementationTypes == {"SImpl", "EmptySImpl"}

ImplService(impl) ==
    IF impl \in {"EmptyA", "AsyncA", "GenA", "AGenA", "ASelf", "AB",
                 "GenARaises", "CmARaises"} THEN "A"
    ELSE IF impl = "CB" THEN "C"
    ELSE IF impl \in {"BDef", "BDefNo", "BSet"} THEN "B"
    ELSE IF impl = "GInt" THEN "G[int]"
    ELSE IF impl = "GStr" THEN "G[str]"
    ELSE IF impl = "GFallback" THEN "G"
    ELSE IF impl = "raise_error" THEN "A"
    ELSE IF impl \in ImplementationTypes THEN "S" ELSE impl

\* The generic class G(Generic[T]) and its parameterized aliases: GInt is a
\* subclass of G[int], GStr one of G[str], and GFallback one of G itself.
\* type(G[int]) is typing._GenericAlias and G[int].__origin__ is G.
GenericAliases == {"G[int]", "G[str]"}
GenericImpls == {"GInt", "GStr", "GFallback"}
ServiceTypes == Types \cup {"G"} \cup GenericAliases \cup {"S"} \cup ImplementationTypes

__origin__(st) == IF st \in GenericAliases THEN "G" ELSE st

\* _set_up_dependencies: one Dependency per parameter, in declaration order
ImplDeps(impl) ==
    CASE impl = "B" -> <<"A">>
      [] impl = "C" -> <<"A", "B">>
      [] impl = "CB" -> <<"B">>
      [] impl = "ASelf" -> <<"A">>
      [] impl = "AB" -> <<"B">>
      [] impl \in {"BDef", "BDefNo", "BSet"} -> <<"A">>
      [] OTHER      -> << >>

\* the sentinel EMPTY, and ArgInfo.default_value: the default value that the
\* parameter of type st declares, EMPTY when it declares none
EMPTY == "EMPTY"
default_value(impl, st) == IF impl \in {"BDef", "BDefNo"} THEN "DefaultA" ELSE EMPTY

\* DependencySettings.value_factory of the parameter
settings_value_factory(impl, st) ==
    CASE impl = "BDefNo" -> "dont_use_default_value"
      [] impl = "BSet"   -> "set_value"
      [] OTHER           -> "default_parameter_value_factory"

\* a value factory that never gives a value
always_empty(factory, default) == EMPTY

\* the call of the value factory: default_parameter_value_factory returns
\* the default value, dont_use_default_value the sentinel and set_value(SetA)
\* its constant
value_factory(factory, default) ==
    CASE factory = "dont_use_default_value" -> EMPTY
      [] factory = "set_value"              -> "SetA"
      [] OTHER                              -> default

\* bool(instance) of the objects the implementation makes
ImplTruthy(impl) == impl \notin {"EmptyA", "EmptySImpl"}

\* AsyncFactoryActivator.activate_async awaits the coroutine of the factory:
\* AsyncA is an async factory for A that awaits an event before it returns
ImplSuspends(impl) == impl = "AsyncA"

\* _get_activator_class: AsyncFactoryActivator and AsyncGeneratorActivator
\* raise "Only async allowed" in activate
ImplAsyncOnly(impl) == impl \in {"AsyncA", "AGenA"}

\* the finalizer an activation adds: GeneratorActivator._generator_close is a
\* plain function, AsyncGeneratorActivator._generator_close a coroutine function
NoFinalizer == "none"
ImplFinalizer(impl) ==
    CASE impl = "GenA"  -> "sync"
      [] impl = "AGenA" -> "async"
      [] impl \in {"GenARaises", "CmARaises"} -> "sync"
      [] OTHER          -> NoFinalizer

\* GenARaises is a generator factory for A whose code after the yield raises,
\* and CmARaises a factory that returns a context manager (@contextmanager)
\* whose code after the yield raises.  The finalizer of the first,
\* GeneratorActivator._generator_close, catches StopIteration only; that of
\* the second, FactoryActivator._contextmanager_finalizer, catches every
\* Exception and logs a warning
FinalizerRaises(impl) == impl = "GenARaises"

\* a scoped_teardown that is a plain function and raises when it is called
RaisingTeardown == "raises"

\* inspect.iscoroutinefunction(registration.scoped_teardown) in add_scoped_node
teardown_kind(td) == IF td = "async" THEN "async" ELSE "sync"

\* scoped_teardown of a registration: None, a function or a coroutine function
NoTeardown == "none"
Teardowns == {NoTeardown, "sync", "async"}

NoName == "None"
Names == {NoName, "n"}

----------------------------------------------------------------------------
(* Nodes and instances.  Every activation of registration r makes one new  *)
(* object and one DependencyNode holding it: the k-th activation of r is    *)
(* [reg |-> r, k |-> k]; two nodes are the same object iff they are equal.  *)
(* decs lists the decorators wrapped around the object, innermost first.    *)

RegIds == 1..MaxRegs
NoNode == [reg |-> 0, k |-> 0, decs |-> << >>, children |-> << >>]
Node(r, k) == [reg |-> r, k |-> k, decs |-> << >>, children |-> << >>]

\* the DependencyNode of a collection: its children are the nodes of the
\* registrations that were built for it
SequenceNode(children) == [reg |-> 0, k |-> 1, decs |-> << >>, children |-> children]

\* bool(node.instance), the test of `if cached_node := ...` in build; the
\* instance of a decorated node is the object of the outermost decorator, an
\* instance of a plain class
Truthy(node) == node.decs # << >> \/ ImplTruthy(regs[node.reg].implementation)

EmptyCache == [r \in RegIds |-> NoNode]
EmptyRegistry == [s \in Scopes |-> [t \in ServiceTypes |-> << >>]]

----------------------------------------------------------------------------
(* Registration filters: the predicate a lookup is made with.               *)

DefaultFilter == "default"
AnyFilter == "any"
NamedFilter == "named"
Filters == {DefaultFilter, AnyFilter, NamedFilter}

\* the values a caller of register can hold: None before the first call, a
\* str or a Scope object afterwards; values of different types are not equal
NoneValue == [type |-> "NoneType", n |-> 0]

\* _Registration.__init__: self.id = str(uuid4()), a string of its own
registration_id(r) == [type |-> "str", n |-> r]

\* Scope.register ends with `return self`
register_returns(s, id) == [type |-> "Scope", n |-> s]

\* the filter `lambda r: r.id == reg_id` of a caller that has assigned the
\* result of its last register call to reg_id
IdFilter == "r.id == reg_id"

\* a default filter that forgets the name
filter_accepts_ignoring_name(rs, f, r) ==
    CASE f = NamedFilter -> rs[r].name = "n"
      [] OTHER           -> TRUE

\* default_registration_filter is r.name is None; with_name("n") and
\* a constant-true predicate are the other two predicates of the model
filter_accepts(rs, f, r) ==
    CASE f = DefaultFilter -> rs[r].name = NoName
      [] f = NamedFilter   -> rs[r].name = "n"
      [] f = IdFilter      -> registration_id(r) = reg_id
      [] OTHER             -> TRUE

----------------------------------------------------------------------------
(* _Registry and Scope.register.                                            *)

\* deque.append in the place of appendleft
append_right(dq, x) == dq \o <<x>>

\* deque.appendleft
appendleft(dq, x) == <<x>> \o dq

\* default_parent_node_filter = constant(True); the filter
\* implementation_type_is(X) is written as the implementation X it accepts
default_parent_node_filter == "constant(True)"

\* _Registration.__init__ (the id is the index of the record in regs)
NewRegistration(s, impl, lifespan, name, teardown) ==
    [service_type |-> ImplService(impl), implementation |-> impl,
     lifespan |-> lifespan, name |-> name, owner |-> s, scoped_teardown |-> teardown,
     parent_node_filter |-> default_parent_node_filter]

\* register(..., parent_node_filter=implementation_type_is(impl))
WithParentNodeFilter(reg, impl) == [reg EXCEPT !.parent_node_filter = impl]

\* r.parent_node_filter(parent_node), for a parent node of implementation parent
parent_node_filter(rs, r, parent) ==
    rs[r].parent_node_filter \in {default_parent_node_filter, parent}

\* a lookup in which no registration is held back by its parent_node_filter
accepted_by_any(rs, rg, parent) == rg

\* the condition `r.parent_node_filter(parent_node)` of Scope.find_registrations:
\* the deques without the registrations whose filter rejects the parent node
\* (none, when every registration has the default filter)
accepted_by(rs, rg, parent) ==
    IF \A r \in DOMAIN rs : rs[r].parent_node_filter = default_parent_node_filter
    THEN rg
    ELSE [x \in DOMAIN rg |-> [t \in DOMAIN rg[x] |->
             LET ok(r) == parent_node_filter(rs, r, parent) IN SelectSeq(rg[x][t], ok)]]

\* the check of _Registration.__init__ that raises ValueError
teardown_rejected(lifespan, teardown) ==
    teardown # NoTeardown /\ ~(lifespan <= scoped)

\* a registry shared with the Container: the registration is filed there too
register_shared(rg, s, st, id) ==
    IF s = Container THEN [rg EXCEPT ![s][st] = appendleft(@, id)]
    ELSE [rg EXCEPT ![s][st] = appendleft(@, id), ![Container][st] = appendleft(@, id)]

\* Scope.register -> _Registry.register_factory / register_concrete:
\* the new registration is prepended to the owner's deque of its service type
register(rg, s, st, id) ==
    [rg EXCEPT ![s][st] = appendleft(@, id)]

\* _Registry.register_implementation: the one registration is prepended to
\* the deque of the service type and to the deque of the implementation type
register_implementation(rg, s, st, impl, id) ==
    [rg EXCEPT ![s][st] = appendleft(@, id), ![s][impl] = appendleft(@, id)]

\* Scope.find_registrations: the scope's own deque, filtered
own_registrations(rs, rg, s, st, f) ==
    LET ok(r) == filter_accepts(rs, f, r) IN SelectSeq(rg[s][st], ok)

\* ChildScope.find_registrations: own registrations, then the parent's
RECURSIVE find_registrations(_, _, _, _, _)
find_registrations(rs, rg, s, st, f) ==
    IF s = Container
    THEN own_registrations(rs, rg, s, st, f)
    ELSE own_registrations(rs, rg, s, st, f)
             \o find_registrations(rs, rg, _parent_scope(s), st, f)

\* next(iter(regs), None)
NoRegistration == 0
first_or_none(found) == IF found = << >> THEN NoRegistration ELSE Head(found)

\* a lookup without the generic fallback
no_generic_fallback(rs, rg, s, st, f) == NoRegistration

\* _ResolvingContext.try_generic_fallback: find_registration for the origin
\* type, which is not an alias; its CannotResolveError is the caller's
try_generic_fallback(rs, rg, s, st, f) ==
    first_or_none(find_registrations(rs, rg, s, __origin__(st), f))

\* _ResolvingContext.find_registration: the first candidate, else the
\* fallback of a generic alias; NoRegistration stands for CannotResolveError
find_registration(rs, rg, s, st, f) ==
    LET reg == first_or_none(find_registrations(rs, rg, s, st, f)) IN
    IF reg # NoRegistration THEN reg
    ELSE IF st \in GenericAliases THEN try_generic_fallback(rs, rg, s, st, f)
    ELSE NoRegistration

----------------------------------------------------------------------------
(* _DecoratorStore, and the decorators and pre-configurations of a scope.   *)

EmptyStores == [s \in Scopes |-> [t \in ServiceTypes |-> << >>]]

\* Decorator.__init__ with the store's insert index; owner is the scope whose
\* register_decorator call made it
NewDecorator(s, index, position) ==
    [owner |-> s, index |-> index, position |-> position, decorator_type |-> "D"]
NoDecorator == [owner |-> 0, index |-> 0 - 1, position |-> 0, decorator_type |-> "D"]

\* a Decorator whose decorator_type is DRaises, a class whose __init__ raises
RaisingDecorator(s, index) ==
    [NewDecorator(s, index, 0) EXCEPT !.decorator_type = "DRaises"]

\* a sort key of (-position, insert_index)
sort_key_descending(a, b) ==
    \/ a.position > b.position
    \/ a.position = b.position /\ a.index < b.index

\* _DecoratorStore.sort_key is (position, -insert_index)
sort_key_less(a, b) ==
    \/ a.position < b.position
    \/ a.position = b.position /\ a.index > b.index

RECURSIVE sorted_by_key(_)
sorted_by_key(S) ==
    IF S = {} THEN << >>
    ELSE LET first == CHOOSE a \in S : \A b \in S \ {a} : sort_key_less(a, b)
         IN <<first>> \o sorted_by_key(S \ {first})

\* a store that keeps the order of insertion
add_decorator_unsorted(store, d) == Append(store, d)

\* _DecoratorStore.add_decorator: append, then sort by the key
add_decorator(store, d) ==
    sorted_by_key({store[i] : i \in 1..Len(store)} \cup {d})

\* Scope.find_decorators: the decorators of the service type whose
\* registration filter (the default one) accepts the registration;
\* ChildScope.find_decorators: the scope's own, then the parent's
RECURSIVE find_decorators(_, _, _)
find_decorators(ds, s, r) ==
    LET own == IF filter_accepts(regs, DefaultFilter, r)
               THEN ds[s][regs[r].service_type] ELSE << >>
    IN IF s = Container THEN own ELSE own \o find_decorators(ds, _parent_scope(s), r)

\* PreConfiguration.__init__: fails says that the function raises, deps are
\* the service types of its parameters; has_run starts False
NewPreConfiguration(fails, continue_on_failure, deps) ==
    [fails |-> fails, continue_on_failure |-> continue_on_failure, deps |-> deps,
     has_run |-> FALSE, runs |-> 0]

\* _Registry.register_pre_configuration: the one PreConfiguration is
\* prepended to the deque of every service type it is registered for
RECURSIVE register_pre_configuration(_, _, _, _)
register_pre_configuration(pr, s, sts, id) ==
    IF sts = << >> THEN pr
    ELSE register_pre_configuration([pr EXCEPT ![s][Head(sts)] = appendleft(@, id)],
                                    s, Tail(sts), id)

\* Scope.find_pre_configurations: those of the service type that have not
\* run and whose filter (the default one) accepts the registration;
\* ChildScope.find_pre_configurations: the scope's own, then the parent's
RECURSIVE find_pre_configurations(_, _, _, _)
find_pre_configurations(ps, pr, s, r) ==
    LET pending(c) == ~ps[c].has_run /\ filter_accepts(regs, DefaultFilter, r)
        own == SelectSeq(pr[s][regs[r].service_type], pending)
    IN IF s = Container THEN own
       ELSE own \o find_pre_configurations(ps, pr, _parent_scope(s), r)

----------------------------------------------------------------------------
(* Sequencing.  Then(v, F) is F applied to the value of v: the statement    *)
(* `x = v` followed by the statements F(x).  v is evaluated once.           *)

Only(S) == CHOOSE e \in S : TRUE
Then(v, F(_)) == Only({F(e) : e \in {v}})

----------------------------------------------------------------------------
(* _DependencyCache.                                                        *)

\* ChildScope.find_scoped_node / Scope.find_scoped_node
RECURSIVE find_scoped_node(_, _, _)
find_scoped_node(sc, s, r) ==
    IF sc[s][r] # NoNode THEN sc[s][r]
    ELSE IF s = Container THEN NoNode
    ELSE find_scoped_node(sc, _parent_scope(s), r)

\* _DependencyCache.__init__: the singletons, overlaid with the scope's own
\* scoped instances
new_cache(m, s) ==
    [r \in RegIds |-> IF m.scoped[s][r] # NoNode THEN m.scoped[s][r] ELSE m.single[r]]

\* _DependencyCache.get: the per-call items, then the scoped caches of the
\* scope chain, then the singletons; a node found outside is copied in
cache_get(m, s, r) ==
    IF m.cur[r] # NoNode THEN [node |-> m.cur[r], m |-> m]
    ELSE LET n == find_scoped_node(m.scoped, s, r) IN
         IF n # NoNode THEN [node |-> n, m |-> [m EXCEPT !.cur[r] = n]]
         ELSE IF m.single[r] # NoNode
              THEN [node |-> m.single[r], m |-> [m EXCEPT !.cur[r] = m.single[r]]]
              ELSE [node |-> NoNode, m |-> m]

\* put with the scoped node stored on the parent of the resolving scope
cache_put_on_parent(m, s, r, node) ==
    LET ls == regs[r].lifespan
        m1 == IF ls = singleton THEN [m EXCEPT !.single[r] = node]
              ELSE IF ls = scoped THEN [m EXCEPT !.scoped[_parent_scope(s)][r] = node]
              ELSE m
    IN IF ls >= once_per_graph THEN [m1 EXCEPT !.cur[r] = node] ELSE m1

\* put with the per-call cache also taking transient nodes
cache_put_transient(m, s, r, node) ==
    LET ls == regs[r].lifespan
        m1 == IF ls = singleton THEN [m EXCEPT !.single[r] = node]
              ELSE IF ls = scoped THEN [m EXCEPT !.scoped[s][r] = node]
              ELSE m
    IN IF ls >= transient THEN [m1 EXCEPT !.cur[r] = node] ELSE m1

\* Scope.add_scoped_node: the node is stored, and the scoped_teardown of the
\* registration is filed under its id with the sync or the async teardowns
add_scoped_node(m, s, r, node) ==
    LET td == regs[r].scoped_teardown
        kind == teardown_kind(td)
        m1 == [m EXCEPT !.scoped[s][r] = node]
        filed == {m.teardowns[s][kind][i] : i \in 1..Len(m.teardowns[s][kind])}
    IN IF td = NoTeardown \/ r \in filed THEN m1
       ELSE [m1 EXCEPT !.teardowns[s][kind] = Append(@, r)]

\* a put that leaves a node that is already stored where it is
cache_put_keeping_first(m, s, r, node) ==
    LET ls == regs[r].lifespan
        m1 == IF ls = singleton /\ m.single[r] = NoNode
              THEN [m EXCEPT !.single[r] = node]
              ELSE IF ls = scoped /\ m.scoped[s][r] = NoNode
              THEN add_scoped_node(m, s, r, node)
              ELSE m
    IN IF ls >= once_per_graph THEN [m1 EXCEPT !.cur[r] = node] ELSE m1

\* _DependencyCache.put
cache_put(m, s, r, node) ==
    LET ls == regs[r].lifespan
        m1 == IF ls = singleton THEN [m EXCEPT !.single[r] = node]
              ELSE IF ls = scoped THEN add_scoped_node(m, s, r, node)
              ELSE m
    IN IF ls >= once_per_graph THEN [m1 EXCEPT !.cur[r] = node] ELSE m1

----------------------------------------------------------------------------
(* Dependency.resolve and _Registration.build, for a call made on scope s.  *)
(* m is the state the call works on: the caches, the activations, the       *)
(* pre-configurations, finalizers and teardowns; exc is the exception that  *)
(* was raised (ok: none), frames the Dependency objects appended to a       *)
(* CannotResolveError, val the value of the last resolve or build, reqs has *)
(* one entry per completed build (the registration, the instance it         *)
(* produced and whether it came from a cache) and log one entry per step:   *)
(* the b-th build of the call logs its steps under the number b.            *)

NoException == "none"
RootImplementation == "DependencyGraph"

Ev(b, r, kind, c, d) == [b |-> b, reg |-> r, kind |-> kind, pc |-> c, dec |-> d]

raise(m, exc) == [m EXCEPT !.ok = FALSE, !.exc = exc, !.val = NoNode]

\* the finalizers created so far, on all scopes
finalizer_count(fs) ==
    Cardinality(UNION {{<<x, i>> : i \in 1..Len(fs[x])} : x \in Scopes})

\* a finalizer kept by the activating scope even for a singleton
add_finalizer_locally(m, s, lifespan, kind, node) ==
    [m EXCEPT !.finalizers[s] =
        appendleft(@, [n |-> finalizer_count(m.finalizers) + 1, kind |-> kind, by |-> s,
                       lifespan |-> lifespan, inst |-> node, done |-> FALSE])]

\* _ResolvingContext.add_finalizer -> ChildScope.add_finalizer / Scope.add_finalizer:
\* the finalizer of a singleton goes up to the Container, any other is
\* prepended to the deque of the resolving scope
add_finalizer(m, s, lifespan, kind, node) ==
    LET to == IF lifespan = singleton THEN Container ELSE s IN
    [m EXCEPT !.finalizers[to] =
        appendleft(@, [n |-> finalizer_count(m.finalizers) + 1, kind |-> kind, by |-> s,
                       lifespan |-> lifespan, inst |-> node, done |-> FALSE])]

\* what activate and activate_async do once the implementation was invoked:
\* the object is made and the finalizer of a generator factory is added
activated(m, s, r, b) ==
    LET node == [Node(r, m.acts[r] + 1) EXCEPT !.children = m.args]
        ma == [m EXCEPT !.acts[r] = @ + 1, !.val = node,
                        !.log = Append(@, Ev(b, r, "activate", 0, NoDecorator))]
        kind == ImplFinalizer(regs[r].implementation)
    IN IF kind = NoFinalizer THEN ma
       ELSE add_finalizer(ma, s, regs[r].lifespan, kind, node)

\* type_expected_to_be_scoped: raise_error is the factory that
\* Container.expect_to_be_scoped registers; calling it raises
ImplRaises(impl) ==
    IF impl = "raise_error" THEN "NeedsScopedRegistrationError" ELSE NoException

\* an activation in which the factory returns an object whatever it is
activate_any(m, s, r, b) == activated(m, s, r, b)

\* activator_class.activate
activate(m, s, r, b) ==
    IF ImplAsyncOnly(regs[r].implementation)
    THEN raise(m, "Exception")      \* "Only async allowed"
    ELSE IF ImplRaises(regs[r].implementation) # NoException
    THEN raise(m, ImplRaises(regs[r].implementation))
    ELSE activated(m, s, r, b)

\* a build that applies no decorator
decorate_none(m, r, b, ds, node) == [m EXCEPT !.val = node]

\* the loop over find_decorators_that_apply in build: Decorator.decorate
\* activates the decorator type with the instance built so far
RECURSIVE decorate_all(_, _, _, _, _)
decorate_all(m, r, b, ds, node) ==
    IF ds = << >> THEN [m EXCEPT !.val = node]
    ELSE IF Head(ds).decorator_type = "DRaises"
    THEN raise([m EXCEPT !.log = Append(@, Ev(b, r, "decorate", 0, Head(ds)))],
               "Exception")
    ELSE decorate_all([m EXCEPT !.log = Append(@, Ev(b, r, "decorate", 0, Head(ds)))],
                      r, b, Tail(ds), [node EXCEPT !.decs = Append(@, Head(ds))])

\* a _run_safely that sets has_run in a finally clause
run_safely_always_marked(m, c) ==
    LET mr == [m EXCEPT !.pcs[c].runs = @ + 1, !.pcs[c].has_run = TRUE] IN
    IF m.pcs[c].fails /\ ~m.pcs[c].continue_on_failure THEN raise(mr, "Exception")
    ELSE mr

\* PreConfiguration._run_safely around the call of the function
run_safely(m, c) ==
    LET mr == [m EXCEPT !.pcs[c].runs = @ + 1] IN
    IF ~m.pcs[c].fails THEN [mr EXCEPT !.pcs[c].has_run = TRUE]
    ELSE IF m.pcs[c].continue_on_failure THEN mr
    ELSE raise(mr, "Exception")

\* parameters that are left unresolved: nothing is looked up or built
skip_dependencies(m, s, parent, deps) == m

RECURSIVE build(_, _, _), Dependency_resolve(_, _, _, _, _, _),
          _resolve_dependencies(_, _, _, _), build_all(_, _, _, _),
          run_pre_configurations(_, _, _, _, _)

\* the loop over the pre-configurations found at the start of build:
\* PreConfiguration.run resolves the parameters of the function and calls it
run_pre_configurations(m, s, r, b, found) ==
    IF found = << >> THEN m
    ELSE LET c == Head(found) IN
         Then(_resolve_dependencies(m, s, "pre_configuration", m.pcs[c].deps), LAMBDA md :
             IF ~md.ok THEN md
             ELSE Then([md EXCEPT !.log =
                           Append(@, Ev(b, r, "pre_configuration", c, NoDecorator))],
                       LAMBDA ml :
                  Then(run_safely(ml, c), LAMBDA mr :
                      IF ~mr.ok THEN mr
                      ELSE run_pre_configurations(mr, s, r, b, Tail(found)))))

\* a lookup in the cache that leaves the children of the parent as they are
found_detached(args, node) == args

\* _Registration._try_find_cached_node: a node that was found is added to
\* the children of the parent node (args), whatever its instance is
_try_find_cached_node(args, node) ==
    IF node # NoNode THEN Append(args, node) ELSE args

\* _Registration.build; m.args are the children that the parent node has
\* when build is called and when it returns, and in between the children of
\* the new node; depth counts the build calls that have not returned, and
\* the interpreter raises RecursionError in the call that exceeds its limit
build(m, s, r) ==
    LET impl == regs[r].implementation IN
    IF m.depth >= MaxDepth THEN raise(m, "RecursionError") ELSE
    Then(cache_get(m, s, r), LAMBDA g :
    LET cached_node == IF g.node # NoNode /\ Truthy(g.node) THEN g.node ELSE NoNode
        b == g.m.nb + 1
        siblings == _try_find_cached_node(g.m.args, g.node)
    IN
    IF cached_node # NoNode
    THEN [g.m EXCEPT !.val = g.node, !.nb = b, !.args = siblings,
                     !.reqs = Append(@, [reg |-> r, inst |-> g.node, hit |-> TRUE]),
                     !.log = Append(@, Ev(b, r, "cached", 0, NoDecorator))]
    ELSE
    Then([g.m EXCEPT !.nb = b, !.depth = @ + 1], LAMBDA mn :
    Then(run_pre_configurations(mn, s, r, b,
             find_pre_configurations(mn.pcs, pre_configurations, s, r)), LAMBDA mc :
    IF ~mc.ok THEN mc ELSE
    Then([mc EXCEPT !.log = Append(@, Ev(b, r, "parameters", 0, NoDecorator)),
                    !.args = << >>], LAMBDA ml :
    Then(_resolve_dependencies(ml, s, impl, ImplDeps(impl)), LAMBDA md :
    IF ~md.ok THEN md ELSE
    Then([md EXCEPT !.log = Append(@, Ev(b, r, "resolved", 0, NoDecorator))], LAMBDA mr :
    Then(activate(mr, s, r, b), LAMBDA ma :
    IF ~ma.ok THEN ma ELSE
    Then(decorate_all(ma, r, b, find_decorators(decorators, s, r), ma.val), LAMBDA mx :
    IF ~mx.ok THEN mx ELSE
    Then(cache_put(mx, s, r, mx.val), LAMBDA mp :
    [mp EXCEPT !.reqs = Append(@, [reg |-> r, inst |-> mx.val, hit |-> FALSE]),
               !.log = Append(@, Ev(b, r, "cache", 0, NoDecorator)),
               !.args = Append(siblings, mx.val), !.depth = @ - 1])))))))))

\* _resolve_dependencies: the parameters of parent in order, each with the
\* default settings (default filter)
_resolve_dependencies(m, s, parent, deps) ==
    IF deps = << >> \/ ~m.ok THEN m
    ELSE Then(Dependency_resolve(m, s, parent, Head(deps), FALSE, DefaultFilter), LAMBDA d :
             _resolve_dependencies(d, s, parent, Tail(deps)))

\* the generator of the collection branch: the registrations are built in order
build_all(m, s, rs, out) ==
    IF rs = << >> THEN [m EXCEPT !.val = out]
    ELSE Then(build(m, s, Head(rs)), LAMBDA mb :
             IF ~mb.ok THEN mb ELSE build_all(mb, s, Tail(rs), Append(out, mb.val)))

\* a CannotResolveError that takes each Dependency at the front of its list
prepend_frame(m, parent, st) ==
    IF m.exc = "CannotResolveError"
    THEN [m EXCEPT !.frames = <<[parent_implementation |-> parent,
                                 service_type |-> st]>> \o @]
    ELSE m

\* the except clause of Dependency.resolve: the Dependency is appended to a
\* CannotResolveError that passes through
append_frame(m, parent, st) ==
    IF m.exc = "CannotResolveError"
    THEN [m EXCEPT !.frames = Append(@, [parent_implementation |-> parent,
                                         service_type |-> st])]
    ELSE m

\* CannotResolveError.print_dependency: the box of one Dependency
print_dependency(d) ==
    [kind |-> "box", implementation |-> d.parent_implementation,
     service_type |-> d.service_type]

Arrow == [kind |-> "arrow", implementation |-> "", service_type |-> ""]

\* CannotResolveError.dependency_chain: the boxes of the dependencies in the
\* order of the list, top to bottom, with an arrow before every box but the
\* first
RECURSIVE dependency_chain(_)
dependency_chain(dependencies) ==
    IF dependencies = << >> THEN << >>
    ELSE IF Len(dependencies) = 1 THEN <<print_dependency(dependencies[1])>>
    ELSE dependency_chain(SubSeq(dependencies, 1, Len(dependencies) - 1)) \o
         <<Arrow, print_dependency(dependencies[Len(dependencies)])>>

\* CannotResolveError.message, of an error that has dependencies
message(dependencies) ==
    [failed_to_resolve |-> dependencies[1].parent_implementation,
     could_not_find |-> dependencies[1].service_type]

\* Dependency.resolve: the value of the value factory if it is not EMPTY
\* (given lists the values that parameters received this way), else the
\* collection branch or the single-registration branch
\* (_ResolvingContext.find_registration takes the first candidate)
Dependency_resolve(m, s, parent, st, collection, f) ==
    LET value == value_factory(settings_value_factory(parent, st),
                               default_value(parent, st)) IN
    IF value # EMPTY
    THEN [m EXCEPT !.val = NoNode,
                   !.given = Append(@, [parent_implementation |-> parent,
                                        service_type |-> st, value |-> value])]
    ELSE IF collection
    THEN Then(build_all([m EXCEPT !.args = << >>], s,
                        find_registrations(regs, accepted_by(regs, registry, parent),
                                           s, st, f), << >>), LAMBDA d :
             IF ~d.ok THEN d ELSE [d EXCEPT !.args = Append(m.args, SequenceNode(d.args))])
    ELSE Then(find_registration(regs, accepted_by(regs, registry, parent), s, st, f),
              LAMBDA reg :
             IF reg = NoRegistration
             THEN Then(raise(m, "CannotResolveError"), LAMBDA d : append_frame(d, parent, st))
             ELSE Then(build(m, s, reg), LAMBDA d : append_frame(d, parent, st)))

\* the state a call starts from
call_state(cur) ==
    [single |-> singletons, scoped |-> scoped_instances, acts |-> acts, cur |-> cur,
     pcs |-> pcs, finalizers |-> finalizers, teardowns |-> teardowns,
     ok |-> TRUE, exc |-> NoException, frames |-> << >>, val |-> NoNode,
     reqs |-> << >>, log |-> << >>, nb |-> 0, susp |-> FALSE, stack |-> << >>,
     args |-> << >>, parents |-> << >>, depth |-> 0, given |-> << >>]

\* Scope.resolve_dependency_graph: a new _ResolvingContext, then the root
\* Dependency
resolve(s, st, collection, f) ==
    Then(call_state(EmptyCache), LAMBDA m0 :
    Then([m0 EXCEPT !.cur = new_cache(m0, s)], LAMBDA m1 :
        Dependency_resolve(m1, s, RootImplementation, st, collection, f)))

\* what a resolve call returns and leaves behind
outcome(m) ==
    [ok |-> m.ok, exc |-> m.exc, val |-> m.val,
     children |-> IF m.ok THEN m.args ELSE << >>,
     reqs |-> m.reqs, single |-> m.single, scoped |-> m.scoped, acts |-> m.acts,
     finalizers |-> m.finalizers, teardowns |-> m.teardowns]

NoTwin ==
    [ok |-> TRUE, exc |-> NoException, val |-> NoNode, children |-> << >>,
     reqs |-> << >>, single |-> EmptyCache, scoped |-> [s \in Scopes |-> EmptyCache],
     acts |-> [r \in RegIds |-> 0], finalizers |-> [s \in Scopes |-> << >>],
     teardowns |-> [s \in Scopes |-> [sync |-> << >>, async |-> << >>]]]

----------------------------------------------------------------------------
(* The public calls.                                                        *)

NoCall == [op |-> "none", scope |-> 0, st |-> "A", collection |-> FALSE,
           filter |-> DefaultFilter, ok |-> TRUE, exc |-> NoException, val |-> NoNode,
           reqs |-> << >>, cur |-> EmptyCache, cands |-> << >>, log |-> << >>,
           frames |-> << >>, lifespan |-> transient, teardown |-> NoTeardown,
           children |-> << >>, given |-> << >>]

ValueInstances(v, collection) ==
    IF collection THEN {v[i] : i \in 1..Len(v)} ELSE {v} \ {NoNode}

\* scope.resolve(service_type, filter) and scope.resolve(list[service_type], filter)
Resolve(s, st, collection, f) ==
    \E m \in {resolve(s, st, collection, f)} :
    /\ \A r \in RegIds : m.acts[r] <= MaxAct
    /\ \A c \in 1..Len(pcs) : m.pcs[c].runs <= MaxAct
    /\ singletons' = m.single
    /\ scoped_instances' = m.scoped
    /\ acts' = m.acts
    /\ pcs' = m.pcs
    /\ finalizers' = m.finalizers
    /\ teardowns' = m.teardowns
    /\ last' = [NoCall EXCEPT !.op = "resolve", !.scope = s, !.st = st,
                !.collection = collection, !.filter = f, !.ok = m.ok, !.exc = m.exc,
                !.val = m.val, !.reqs = m.reqs, !.cur = m.cur,
                !.cands = find_registrations(regs, registry, s, st, f),
                !.log = m.log, !.frames = m.frames, !.given = m.given,
                !.children = IF m.ok THEN m.args ELSE << >>]
    /\ returned' = IF m.ok
                   THEN returned \cup {[scope |-> s, inst |-> i] :
                                          i \in {j \in ValueInstances(m.val, collection) :
                                                    regs[j.reg].lifespan = scoped}}
                   ELSE returned
    /\ handed' = IF m.ok
                 THEN handed \cup {j \in ValueInstances(m.val, collection) :
                                      regs[j.reg].lifespan = singleton}
                 ELSE handed
    /\ built' = built \cup {[scope |-> s, inst |-> m.reqs[i].inst] :
                                i \in {j \in 1..Len(m.reqs) :
                                    ~m.reqs[j].hit /\ regs[m.reqs[j].reg].lifespan = scoped}}
    /\ UNCHANGED <<regs, registry, acall, decorators, pre_configurations>>
    /\ UNCHANGED extVars

\* scope.register(service_type, factory=impl, lifespan=..., name=...,
\* scoped_teardown=...): _Registration.__init__ may raise ValueError before
\* anything is stored
Register(s, impl, lifespan, name, teardown) ==
    LET id == Len(regs) + 1
        call == [NoCall EXCEPT !.op = "register", !.lifespan = lifespan,
                               !.teardown = teardown]
    IN
    /\ IF teardown_rejected(lifespan, teardown)
       THEN /\ last' = [call EXCEPT !.ok = FALSE, !.exc = "ValueError"]
            /\ UNCHANGED <<regs, registry, reg_id>>
       ELSE /\ regs' = Append(regs, NewRegistration(s, impl, lifespan, name, teardown))
            /\ registry' = register(registry, s, ImplService(impl), id)
            /\ reg_id' = register_returns(s, id)
            /\ last' = call
    /\ UNCHANGED <<singletons, scoped_instances, acts, returned, handed, built, acall>>
    /\ UNCHANGED <<hookVars, exitVars>>
    /\ UNCHANGED <<bundleVars, peer, twin>>

\* scope.register(service_type, implementation_type, lifespan=...)
RegisterImplementation(s, impl, lifespan) ==
    LET id == Len(regs) + 1 IN
    /\ regs' = Append(regs, NewRegistration(s, impl, lifespan, NoName, NoTeardown))
    /\ registry' = register_implementation(registry, s, ImplService(impl), impl, id)
    /\ reg_id' = register_returns(s, id)
    /\ last' = [NoCall EXCEPT !.op = "register", !.lifespan = lifespan]
    /\ UNCHANGED <<singletons, scoped_instances, acts, returned, handed, built, acall>>
    /\ UNCHANGED <<hookVars, exitVars>>
    /\ UNCHANGED <<bundleVars, peer, twin>>

\* scope.register_decorator(service_type, decorator_type, position=...)
RegisterDecorator(s, st, position) ==
    /\ decorators' = [decorators EXCEPT ![s][st] =
                         add_decorator(@, NewDecorator(s, Len(@), position))]
    /\ last' = [NoCall EXCEPT !.op = "register_decorator"]
    /\ UNCHANGED <<regs, registry, singletons, scoped_instances, acts, returned, handed,
                   built, acall, pre_configurations, pcs, exitVars>>
    /\ UNCHANGED extVars

\* scope.register_decorator(service_type, DRaises)
RegisterRaisingDecorator(s, st) ==
    /\ decorators' = [decorators EXCEPT ![s][st] =
                         add_decorator(@, RaisingDecorator(s, Len(@)))]
    /\ last' = [NoCall EXCEPT !.op = "register_decorator"]
    /\ UNCHANGED <<regs, registry, singletons, scoped_instances, acts, returned, handed,
                   built, acall, pre_configurations, pcs, exitVars>>
    /\ UNCHANGED extVars

\* scope.pre_configure(service_types, configuration_function,
\* continue_on_failure=...)
PreConfigure(s, sts, fails, continue_on_failure, deps) ==
    /\ pcs' = Append(pcs, NewPreConfiguration(fails, continue_on_failure, deps))
    /\ pre_configurations' =
           register_pre_configuration(pre_configurations, s, sts, Len(pcs) + 1)
    /\ last' = [NoCall EXCEPT !.op = "pre_configure"]
    /\ UNCHANGED <<regs, registry, singletons, scoped_instances, acts, returned, handed,
                   built, acall, decorators, exitVars>>
    /\ UNCHANGED extVars

----------------------------------------------------------------------------
(* Leaving a scope: Scope.__exit__ and Scope.__aexit__.  The log of the     *)
(* call has one entry per callback that is called.                          *)

XEv(kind, mode, r, inst, n, ran) ==
    [kind |-> kind, mode |-> mode, reg |-> r, inst |-> inst, n |-> n, ran |-> ran]

\* teardowns run without regard to their kind
run_teardowns_of_any_kind(s, kind) ==
    [i \in 1..Len(teardowns[s]["sync"]) |->
        XEv("teardown", "sync", teardowns[s]["sync"][i],
            scoped_instances[s][teardowns[s]["sync"][i]], 0, TRUE)] \o
    [i \in 1..Len(teardowns[s]["async"]) |->
        XEv("teardown", "async", teardowns[s]["async"][i],
            scoped_instances[s][teardowns[s]["async"][i]], 0, TRUE)]

\* _run_sync_teardowns / _run_async_teardowns: every teardown function is
\* called with the instance of the node cached on the scope
run_teardowns(s, kind) ==
    [i \in 1..Len(teardowns[s][kind]) |->
        XEv("teardown", kind, teardowns[s][kind][i],
            scoped_instances[s][teardowns[s][kind][i]], 0, TRUE)]

\* what calling one finalizer does.  Calling the finalizer of a generator
\* runs the code after its yield, once; calling the coroutine function of an
\* async generator without awaiting the result runs nothing
call_finalizer(f, awaited) ==
    IF f.kind = "async" /\ ~awaited THEN XEv("finalizer", f.kind, 0, f.inst, f.n, FALSE)
    ELSE XEv("finalizer", f.kind, 0, f.inst, f.n, ~f.done)

\* _close_finalizers calls every finalizer; _async_close_finalizers awaits
\* those that are coroutine functions and calls the others
close_finalizers(s, awaited) ==
    [i \in 1..Len(finalizers[s]) |-> call_finalizer(finalizers[s][i], awaited)]

\* the call of the callback raised: neither loop of the exit has a try
Raised(ev) ==
    \/ ev.kind = "teardown" /\ regs[ev.reg].scoped_teardown = RaisingTeardown
    \/ ev.kind = "finalizer" /\ ev.ran /\ FinalizerRaises(regs[ev.inst.reg].implementation)

\* the exception of a callback ends the loop and the exit: the calls up to
\* the first that raised
until_raised(log) ==
    LET raising == {i \in 1..Len(log) : Raised(log[i])} IN
    IF raising = {} THEN log
    ELSE SubSeq(log, 1, CHOOSE i \in raising : \A j \in raising : i <= j)

\* __exit__ with the finalizers closed before the teardowns run
exit_log_finalizers_first(s) == close_finalizers(s, FALSE) \o run_teardowns(s, "sync")

\* Scope.__exit__: the sync teardowns, then the finalizers
exit_log(s) == until_raised(run_teardowns(s, "sync") \o close_finalizers(s, FALSE))

\* Scope.__aexit__: the async teardowns, the sync teardowns, then the finalizers
aexit_log(s) ==
    until_raised(run_teardowns(s, "async") \o run_teardowns(s, "sync")
                     \o close_finalizers(s, TRUE))

\* the finalizers of the scope after the exit: those that were called
finalizers_closed(s, awaited) ==
    LET log == IF awaited THEN aexit_log(s) ELSE exit_log(s)
        called == Cardinality({i \in 1..Len(log) : log[i].kind = "finalizer"})
    IN [i \in 1..Len(finalizers[s]) |->
           IF i > called THEN finalizers[s][i]
           ELSE [finalizers[s][i] EXCEPT
                    !.done = @ \/ call_finalizer(finalizers[s][i], awaited).ran]]

\* the exception that leaves the exit, if a callback raised
exit_raised(log) == \E i \in 1..Len(log) : Raised(log[i])

\* `with scope:` is left, normally or by an exception of the block
Exit(s) ==
    /\ ~acall.active
    /\ last' = [NoCall EXCEPT !.op = "exit", !.scope = s, !.log = exit_log(s),
                              !.ok = ~exit_raised(exit_log(s)),
                              !.exc = IF exit_raised(exit_log(s)) THEN "Exception"
                                      ELSE NoException]
    /\ finalizers' = [finalizers EXCEPT ![s] = finalizers_closed(s, FALSE)]
    /\ UNCHANGED <<regs, registry, singletons, scoped_instances, acts, returned, handed,
                   built, acall, hookVars, teardowns>>
    /\ UNCHANGED extVars

\* `async with scope:` is left, normally or by an exception of the block
AsyncExit(s) ==
    /\ ~acall.active
    /\ last' = [NoCall EXCEPT !.op = "aexit", !.scope = s, !.log = aexit_log(s),
                              !.ok = ~exit_raised(aexit_log(s)),
                              !.exc = IF exit_raised(aexit_log(s)) THEN "Exception"
                                      ELSE NoException]
    /\ finalizers' = [finalizers EXCEPT ![s] = finalizers_closed(s, TRUE)]
    /\ UNCHANGED <<regs, registry, singletons, scoped_instances, acts, returned, handed,
                   built, acall, hookVars, teardowns>>
    /\ UNCHANGED extVars

----------------------------------------------------------------------------
(* The async path: Dependency.resolve_async and _Registration.build_async.  *)
(* A coroutine runs until it awaits an async factory; what is then left of  *)
(* it is the stack of its build_async frames, outermost first.  The frame   *)
(* of the b-th build, of registration reg, waits in stage "own" for its own *)
(* factory, whose object will be node, in stage "parameters" for its i-th   *)
(* parameter, and in stage "pre_configuration" for the i-th parameter of    *)
(* the first of the pre-configurations found that are still to run.         *)

Frame(r, b, stage, i, node, found) ==
    [reg |-> r, b |-> b, stage |-> stage, i |-> i, node |-> node, found |-> found]

RECURSIVE build_async(_, _, _), _resolve_dependencies_async(_, _, _, _, _),
          pre_configurations_async(_, _, _, _, _, _),
          Dependency_resolve_async(_, _, _, _), resume(_, _, _)

\* the end of build_async, once activate_async has returned: the decorators
\* (decorate_async), context.new_instance_created and the return
finish_build(m, s, r, b, node) ==
    Then(decorate_all(m, r, b, find_decorators(decorators, s, r), node), LAMBDA mx :
    IF ~mx.ok THEN mx ELSE
    Then(cache_put(mx, s, r, mx.val), LAMBDA mp :
        [mp EXCEPT !.susp = FALSE, !.stack = << >>,
                   !.args = Append(mp.parents[Len(mp.parents)], mx.val),
                   !.parents = SubSeq(@, 1, Len(@) - 1),
                   !.reqs = Append(@, [reg |-> r, inst |-> mx.val, hit |-> FALSE]),
                   !.log = Append(@, Ev(b, r, "cache", 0, NoDecorator))]))

\* activator_class.activate_async: the implementation is invoked; awaiting
\* the coroutine of an async factory suspends the caller
activate_async(m, s, r, b) ==
    IF ImplRaises(regs[r].implementation) # NoException
    THEN raise(m, ImplRaises(regs[r].implementation))
    ELSE
    Then(activated(m, s, r, b), LAMBDA ma :
        IF ImplSuspends(regs[r].implementation)
        THEN [ma EXCEPT !.susp = TRUE, !.stack = <<Frame(r, b, "own", 0, ma.val, << >>)>>]
        ELSE finish_build(ma, s, r, b, ma.val))

\* the single-registration branch of Dependency.resolve_async
Dependency_resolve_async(m, s, parent, st) ==
    LET value == value_factory(settings_value_factory(parent, st),
                               default_value(parent, st)) IN
    IF value # EMPTY
    THEN [m EXCEPT !.val = NoNode, !.susp = FALSE,
                   !.given = Append(@, [parent_implementation |-> parent,
                                        service_type |-> st, value |-> value])]
    ELSE
    Then(find_registration(regs, accepted_by(regs, registry, parent), s, st,
                           DefaultFilter), LAMBDA reg :
        IF reg = NoRegistration
        THEN Then(raise(m, "CannotResolveError"), LAMBDA d : append_frame(d, parent, st))
        ELSE Then(build_async(m, s, reg), LAMBDA d : append_frame(d, parent, st)))

\* _resolve_dependencies_async from the i-th parameter of r on, then the
\* activation of r
_resolve_dependencies_async(m, s, r, b, i) ==
    LET impl == regs[r].implementation
        deps == ImplDeps(impl)
    IN IF i > Len(deps)
       THEN Then([m EXCEPT !.log = Append(@, Ev(b, r, "resolved", 0, NoDecorator))],
                 LAMBDA mr : activate_async(mr, s, r, b))
       ELSE Then(Dependency_resolve_async(m, s, impl, deps[i]), LAMBDA d :
            IF ~d.ok THEN d
            ELSE IF d.susp
            THEN [d EXCEPT !.stack = <<Frame(r, b, "parameters", i, NoNode, << >>)>> \o @]
            ELSE _resolve_dependencies_async(d, s, r, b, i + 1))

\* the loop over the pre-configurations in build_async, from the i-th
\* parameter of the first of found on (PreConfiguration.run_async), then the
\* parameters of r
pre_configurations_async(m, s, r, b, found, i) ==
    IF found = << >>
    THEN Then([m EXCEPT !.log = Append(@, Ev(b, r, "parameters", 0, NoDecorator)),
                        !.args = << >>],
              LAMBDA ml : _resolve_dependencies_async(ml, s, r, b, 1))
    ELSE LET c == Head(found)
             deps == m.pcs[c].deps
         IN IF i > Len(deps)
            THEN Then([m EXCEPT !.log =
                          Append(@, Ev(b, r, "pre_configuration", c, NoDecorator))],
                      LAMBDA ml :
                 Then(run_safely(ml, c), LAMBDA mr :
                     IF ~mr.ok THEN mr
                     ELSE pre_configurations_async(mr, s, r, b, Tail(found), 1)))
            ELSE Then(Dependency_resolve_async(m, s, "pre_configuration", deps[i]), LAMBDA d :
                 IF ~d.ok THEN d
                 ELSE IF d.susp
                 THEN [d EXCEPT !.stack =
                          <<Frame(r, b, "pre_configuration", i, NoNode, found)>> \o @]
                 ELSE pre_configurations_async(d, s, r, b, found, i + 1))

\* _Registration.build_async, up to its first suspension
build_async(m, s, r) ==
    IF Len(m.parents) >= MaxDepth THEN raise(m, "RecursionError") ELSE
    Then(cache_get(m, s, r), LAMBDA g :
    LET cached_node == IF g.node # NoNode /\ Truthy(g.node) THEN g.node ELSE NoNode
        b == g.m.nb + 1
        siblings == _try_find_cached_node(g.m.args, g.node)
    IN IF cached_node # NoNode
       THEN [g.m EXCEPT !.val = g.node, !.susp = FALSE, !.nb = b,
                        !.args = siblings,
                        !.reqs = Append(@, [reg |-> r, inst |-> g.node, hit |-> TRUE]),
                        !.log = Append(@, Ev(b, r, "cached", 0, NoDecorator))]
       ELSE Then([g.m EXCEPT !.nb = b, !.parents = Append(@, siblings)], LAMBDA mn :
                pre_configurations_async(mn, s, r, b,
                    find_pre_configurations(mn.pcs, pre_configurations, s, r), 1)))

\* the Dependency a frame waits for: the implementation that asks, and the
\* service type
frame_parent(m, f) ==
    IF f.stage = "parameters" THEN regs[f.reg].implementation ELSE "pre_configuration"
frame_service_type(m, f) ==
    IF f.stage = "parameters" THEN ImplDeps(regs[f.reg].implementation)[f.i]
    ELSE m.pcs[Head(f.found)].deps[f.i]

\* a suspended coroutine goes on: the innermost frame gets the object of its
\* factory and finishes, every outer frame goes on with its next parameter
resume(m, s, stack) ==
    LET f == Head(stack) IN
    IF Len(stack) = 1 THEN finish_build(m, s, f.reg, f.b, f.node)
    ELSE Then(resume(m, s, Tail(stack)), LAMBDA d :
         IF d.ok /\ d.susp THEN [d EXCEPT !.stack = <<f>> \o @]
         ELSE IF ~d.ok THEN append_frame(d, frame_parent(m, f), frame_service_type(m, f))
         ELSE IF f.stage = "parameters"
         THEN _resolve_dependencies_async(d, s, f.reg, f.b, f.i + 1)
         ELSE pre_configurations_async(d, s, f.reg, f.b, f.found, f.i + 1))

NoAsync == [active |-> FALSE, scope |-> 0, st |-> "A", collection |-> FALSE,
            ok |-> TRUE, cur |-> EmptyCache, tasks |-> << >>, ready |-> << >>,
            reqs |-> << >>, cands |-> << >>, log |-> << >>, nb |-> 0,
            exc |-> NoException, frames |-> << >>, given |-> << >>]

NewTask(r) == [reg |-> r, status |-> "new", stack |-> << >>, val |-> NoNode,
               parents |-> << >>, children |-> << >>]

\* the children of the sequence node of a gather: every coroutine adds its
\* nodes when it first runs, and the coroutines first run in the order given
RECURSIVE gathered(_)
gathered(tasks) ==
    IF tasks = << >> THEN << >> ELSE Head(tasks).children \o gathered(Tail(tasks))

\* scope.resolve_async(service_type) and scope.resolve_async(list[service_type]):
\* a new _ResolvingContext; the collection branch hands one build_async
\* coroutine per candidate, in order, to asyncio.gather, the single branch
\* awaits the build_async of the first candidate
ResolveAsyncOf(call, next_call, s, st, collection) ==
    LET accepted == accepted_by(regs, registry, RootImplementation)
        found == find_registrations(regs, accepted, s, st, DefaultFilter)
        reg == find_registration(regs, accepted, s, st, DefaultFilter)
        rs == IF collection THEN found
              ELSE IF reg = NoRegistration THEN << >> ELSE <<reg>>
        m0 == [single |-> singletons, scoped |-> scoped_instances]
    IN
    /\ ~call.active
    /\ \A r \in RegIds : acts[r] + Len(rs) <= MaxAct
    /\ \A c \in 1..Len(pcs) : pcs[c].runs < MaxAct
    /\ next_call = [NoAsync EXCEPT
                 !.active = TRUE, !.scope = s, !.st = st, !.collection = collection,
                 !.ok = collection \/ rs # << >>, !.cur = new_cache(m0, s),
                 !.tasks = [i \in 1..Len(rs) |-> NewTask(rs[i])],
                 !.ready = [i \in 1..Len(rs) |-> i],
                 !.cands = found,
                 !.exc = IF collection \/ rs # << >> THEN NoException
                         ELSE "CannotResolveError",
                 !.frames = IF collection \/ rs # << >> THEN << >>
                            ELSE <<[parent_implementation |-> RootImplementation,
                                   service_type |-> st]>>]
    /\ last' = [NoCall EXCEPT !.op = "resolve_async_begin"]
    /\ UNCHANGED <<regs, registry, singletons, scoped_instances, acts,
                   returned, handed, built>>
    /\ UNCHANGED <<hookVars, exitVars>>

ResolveAsync(s, st, collection) ==
    /\ ResolveAsyncOf(acall, acall', s, st, collection)
    /\ UNCHANGED extVars

\* the event loop runs the coroutine at the head of its ready queue until the
\* coroutine suspends or returns
RunTaskOf(call, next_call) ==
    /\ call.active
    /\ call.ready # << >>
    /\ LET t == Head(call.ready)
           task == call.tasks[t]
       IN
       \E m0 \in {[call_state(call.cur) EXCEPT !.reqs = call.reqs, !.log = call.log,
                                                !.nb = call.nb, !.given = call.given,
                                                !.parents = task.parents]} :
       \E mb \in {IF task.status = "new" THEN build_async(m0, call.scope, task.reg)
                   ELSE resume(m0, call.scope, task.stack)} :
       \* the Dependency of the request itself, outside gather
       \E m \in {IF call.collection THEN mb
                  ELSE append_frame(mb, RootImplementation, call.st)} :
       /\ singletons' = m.single
       /\ scoped_instances' = m.scoped
       /\ acts' = m.acts
       /\ pcs' = m.pcs
       /\ finalizers' = m.finalizers
       /\ teardowns' = m.teardowns
       /\ next_call = [call EXCEPT
               !.cur = m.cur, !.reqs = m.reqs, !.ready = Tail(@), !.ok = @ /\ m.ok,
               !.log = m.log, !.nb = m.nb, !.given = m.given,
               !.exc = IF m.ok THEN @ ELSE m.exc,
               !.frames = IF m.ok THEN @ ELSE m.frames,
               !.tasks[t] = IF m.ok /\ m.susp
                            THEN [task EXCEPT !.status = "waiting", !.stack = m.stack,
                                              !.parents = m.parents]
                            ELSE [task EXCEPT !.status = "done", !.stack = << >>,
                                              !.val = m.val, !.parents = << >>,
                                              !.children = IF m.ok THEN m.args
                                                           ELSE << >>]]
    /\ UNCHANGED <<regs, registry, last, returned, handed, built,
                   decorators, pre_configurations>>

RunTask ==
    /\ RunTaskOf(acall, acall')
    /\ UNCHANGED extVars

\* the event an async factory awaits arrives: its coroutine is ready again
WakeOf(call, next_call, t) ==
    /\ call.active
    /\ t \in 1..Len(call.tasks)
    /\ call.tasks[t].status = "waiting"
    /\ next_call = [call EXCEPT !.tasks[t].status = "ready", !.ready = Append(@, t)]
    /\ UNCHANGED <<regs, registry, singletons, scoped_instances, acts, last,
                   returned, handed, built>>
    /\ UNCHANGED <<hookVars, exitVars>>

Wake(t) ==
    /\ WakeOf(acall, acall', t)
    /\ UNCHANGED extVars

\* all coroutines have returned: gather gives their results in the order the
\* coroutines were passed, and resolve_async returns
CompleteOf(call, next_call) ==
    /\ call.active
    /\ \A t \in 1..Len(call.tasks) : call.tasks[t].status = "done"
    /\ LET val == IF call.collection
                  THEN [i \in 1..Len(call.tasks) |-> call.tasks[i].val]
                  ELSE IF call.tasks = << >> THEN NoNode ELSE call.tasks[1].val
           insts == IF call.ok THEN ValueInstances(val, call.collection) ELSE {}
       IN
       /\ last' = [NoCall EXCEPT
                   !.op = "resolve_async", !.scope = call.scope, !.st = call.st,
                   !.collection = call.collection, !.filter = DefaultFilter,
                   !.ok = call.ok, !.val = val,
                   !.children = IF ~call.ok THEN << >>
                                ELSE IF call.collection
                                THEN <<SequenceNode(gathered(call.tasks))>>
                                ELSE gathered(call.tasks),
                   !.reqs = call.reqs,
                   !.cur = call.cur, !.cands = call.cands, !.log = call.log,
                   !.exc = call.exc, !.frames = call.frames, !.given = call.given]
       /\ returned' = returned \cup {[scope |-> call.scope, inst |-> i] :
                                        i \in {j \in insts : regs[j.reg].lifespan = scoped}}
       /\ handed' = handed \cup {j \in insts : regs[j.reg].lifespan = singleton}
       /\ built' = built \cup {[scope |-> call.scope, inst |-> call.reqs[i].inst] :
                                  i \in {j \in 1..Len(call.reqs) :
                                      /\ ~call.reqs[j].hit
                                      /\ regs[call.reqs[j].reg].lifespan = scoped}}
    /\ next_call = NoAsync
    /\ UNCHANGED <<regs, registry, singletons, scoped_instances, acts>>
    /\ UNCHANGED <<hookVars, exitVars>>

Complete ==
    /\ CompleteOf(acall, acall')
    /\ UNCHANGED extVars

----------------------------------------------------------------------------
(* Bundles (clean_ioc/bundles.py) and Container.apply_bundle.  The program  *)
(* creates Container objects and drops them; a dropped container is         *)
(* collected and its address may be given to a container created later.     *)
(* i1 and i2 are two instances of one subclass I of                         *)
(* OnlyRunOncePerInstanceBundle, k1 and k2 two instances of one subclass K  *)
(* of OnlyRunOncePerClassBundle.                                            *)

ContainerObjects == 1..MaxContainers
Addresses == 1..MaxAddress
NotCreated == 0
Collected == 0 - 1

Bundles == {"i1", "i2", "k1", "k2"}
BundleClasses == {"I", "K"}
BundleClass(b) == IF b \in {"i1", "i2"} THEN "I" ELSE "K"

Alive(c) == address[c] \in Addresses

\* id(container): the address of the object
container_id(c) == address[c]

CoreUnchanged ==
    UNCHANGED <<regs, registry, singletons, scoped_instances, acts, last, returned,
                handed, built, acall, peer, twin, hookVars, exitVars, reg_id>>

\* Container(): the new object gets an address that no live object has
NewContainer ==
    \E c \in ContainerObjects, a \in Addresses :
        /\ address[c] = NotCreated
        /\ \A x \in ContainerObjects : x < c => address[x] # NotCreated
        /\ \A x \in ContainerObjects : address[x] # a
        /\ address' = [address EXCEPT ![c] = a]
        /\ UNCHANGED <<containers_where_instance_has_run,
                       CONTAINERS_WHERE_CLASS_HAS_RUN, apply_calls>>
        /\ CoreUnchanged

\* the last reference to the container is dropped and the object is
\* collected: nothing in bundles.py holds a reference to a container
CollectContainer ==
    \E c \in ContainerObjects :
        /\ Alive(c)
        /\ address' = [address EXCEPT ![c] = Collected]
        /\ UNCHANGED <<containers_where_instance_has_run,
                       CONTAINERS_WHERE_CLASS_HAS_RUN, apply_calls>>
        /\ CoreUnchanged

\* x in list
contains(list, x) == \E i \in 1..Len(list) : list[i] = x

\* bundle_has_run_in_container of the two classes
bundle_has_run_in_container(b, c) ==
    IF BundleClass(b) = "I"
    THEN contains(containers_where_instance_has_run[b], container_id(c))
    ELSE contains(CONTAINERS_WHERE_CLASS_HAS_RUN[BundleClass(b)], container_id(c))

\* container.apply_bundle(bundle): bundle.__call__(container), which
\* returns at once if the bundle has run in the container and otherwise
\* calls apply and marks the bundle as run
ApplyBundle ==
    \E b \in Bundles, c \in ContainerObjects :
        /\ Alive(c)
        /\ Len(apply_calls) < MaxApply
        /\ IF bundle_has_run_in_container(b, c)
           THEN /\ apply_calls' = Append(apply_calls,
                                         [bundle |-> b, container |-> c, ran |-> FALSE])
                /\ UNCHANGED <<containers_where_instance_has_run,
                               CONTAINERS_WHERE_CLASS_HAS_RUN>>
           ELSE /\ apply_calls' = Append(apply_calls,
                                         [bundle |-> b, container |-> c, ran |-> TRUE])
                /\ IF BundleClass(b) = "I"
                   THEN /\ containers_where_instance_has_run' =
                               [containers_where_instance_has_run EXCEPT
                                    ![b] = Append(@, container_id(c))]
                        /\ UNCHANGED CONTAINERS_WHERE_CLASS_HAS_RUN
                   ELSE /\ CONTAINERS_WHERE_CLASS_HAS_RUN' =
                               [CONTAINERS_WHERE_CLASS_HAS_RUN EXCEPT
                                    ![BundleClass(b)] = Append(@, container_id(c))]
                        /\ UNCHANGED containers_where_instance_has_run
        /\ UNCHANGED address
        /\ CoreUnchanged

----------------------------------------------------------------------------
(* Specification of the lifespans: the Container is set up with one         *)
(* unnamed registration of A, B and C, of any lifespan, where A is made by  *)
(* the class or by the factory of empty objects; then resolve calls are     *)
(* made on all scopes.                                                      *)

RECURSIVE register_all(_, _, _)
register_all(rg, rs, id) ==
    IF id > Len(rs) THEN rg
    ELSE register_all(register(rg, rs[id].owner, rs[id].service_type, id), rs, id + 1)

SetUps ==
    {<<NewRegistration(Container, ia, la, NoName, NoTeardown),
       NewRegistration(Container, "B", lb, NoName, NoTeardown),
       NewRegistration(Container, "C", lc, NoName, NoTeardown)>> :
        ia \in {"A", "EmptyA"}, la \in Lifespans, lb \in {transient}, lc \in {transient}}

InitCaches ==
    /\ singletons = EmptyCache
    /\ scoped_instances = [s \in Scopes |-> EmptyCache]
    /\ acts = [r \in RegIds |-> 0]
    /\ last = NoCall
    /\ returned = {}
    /\ handed = {}
    /\ built = {}
    /\ acall = NoAsync
    /\ peer = NoAsync
    /\ twin = NoTwin
    /\ decorators = EmptyStores
    /\ pre_configurations = EmptyStores
    /\ pcs = << >>
    /\ finalizers = [s \in Scopes |-> << >>]
    /\ teardowns = [s \in Scopes |-> [sync |-> << >>, async |-> << >>]]
    /\ reg_id = NoneValue
    /\ address = [c \in ContainerObjects |-> NotCreated]
    /\ containers_where_instance_has_run = [b \in Bundles |-> << >>]
    /\ CONTAINERS_WHERE_CLASS_HAS_RUN = [k \in BundleClasses |-> << >>]
    /\ apply_calls = << >>

Init ==
    /\ regs \in SetUps
    /\ registry = register_all(EmptyRegistry, regs, 1)
    /\ InitCaches

ResolveOne == \E s \in Scopes, st \in Types : Resolve(s, st, FALSE, DefaultFilter)

Next == ResolveOne

Spec == Init /\ [][Next]_vars

----------------------------------------------------------------------------
(* Specification of the lookup: the registries start empty; named and       *)
(* unnamed registrations of A are added to the Container, to its child 1    *)
(* and to the scope nested in 1, and single and collection resolve calls    *)
(* are made on every scope (also on the sibling 2) in between.              *)

RegScopes == {s \in Scopes : s = Container \/ s % 2 = 1}

InitLookup ==
    /\ regs = << >>
    /\ registry = EmptyRegistry
    /\ InitCaches

RegisterAny ==
    /\ Len(regs) < MaxRegs
    /\ \E s \in RegScopes, name \in Names : Register(s, "A", singleton, name, NoTeardown)

ResolveSingle == \E s \in Scopes : Resolve(s, "A", FALSE, DefaultFilter)

ResolveList == \E s \in Scopes, f \in {DefaultFilter, AnyFilter} : Resolve(s, "A", TRUE, f)

NextLookup == RegisterAny \/ ResolveSingle \/ ResolveList

SpecLookup == InitLookup /\ [][NextLookup]_vars

----------------------------------------------------------------------------
(* Specification of the async path: the Container is set up with one        *)
(* registration of A, of any lifespan, made by the class or by the async    *)
(* factory, and two transient registrations of B(a: A); resolve_async calls *)
(* for A, B, list[A] and list[B] are made on all scopes, one at a time.     *)

SetUpsAsync ==
    {<<NewRegistration(Container, ia, la, NoName, NoTeardown),
       NewRegistration(Container, "B", transient, NoName, NoTeardown),
       NewRegistration(Container, "B", transient, NoName, NoTeardown)>> :
        ia \in {"A", "AsyncA"}, la \in Lifespans}

InitAsync ==
    /\ regs \in SetUpsAsync
    /\ registry = register_all(EmptyRegistry, regs, 1)
    /\ InitCaches

ResolveAsyncAny ==
    \E s \in Scopes, st \in {"A", "B"}, collection \in BOOLEAN : ResolveAsync(s, st, collection)

WakeAny == \E t \in RegIds : Wake(t)

NextAsync == ResolveAsyncAny \/ RunTask \/ WakeAny \/ Complete

SpecAsync == InitAsync /\ [][NextAsync]_vars

----------------------------------------------------------------------------
(* Specification of the decorators: the Container has one transient         *)
(* registration of A; decorators of A are registered, with any position, on *)
(* the Container and on its child 1, and A is resolved on every scope in    *)
(* between.                                                                 *)

DecorScopes == {Container, 1}

decorator_count ==
    Cardinality(UNION {{<<x, t, i>> : i \in 1..Len(decorators[x][t])} :
                          x \in Scopes, t \in Types})

InitDecor ==
    /\ regs = <<NewRegistration(Container, "A", transient, NoName, NoTeardown)>>
    /\ registry = register_all(EmptyRegistry, regs, 1)
    /\ InitCaches

RegisterDecoratorAny ==
    /\ decorator_count < MaxDecs
    /\ \E s \in DecorScopes, position \in 0..MaxPos : RegisterDecorator(s, "A", position)

ResolveDecorated == \E s \in Scopes : Resolve(s, "A", FALSE, DefaultFilter)

NextDecor == RegisterDecoratorAny \/ ResolveDecorated

SpecDecor == InitDecor /\ [][NextDecor]_vars

----------------------------------------------------------------------------
(* Specification of the hooks: the Container has one registration of A,     *)
(* transient, once per graph or singleton, and a transient one of B(a: A).  *)
(* Pre-                                                                     *)
(* configurations whose function returns normally are registered on the     *)
(* Container and on its child 1: for A, for B, for both at once, or for B   *)
(* with a parameter of type A; a decorator of A or of B may be registered   *)
(* on the Container; A and B are resolved on both scopes in between.        *)
(* (A pre-configuration of A with a parameter of type A is left out: its    *)
(* run builds A, which runs it again, without end.)                         *)

HookScopes == {Container, 1}

HookTargets ==
    {[sts |-> <<"A">>, deps |-> << >>], [sts |-> <<"B">>, deps |-> << >>],
     [sts |-> <<"A", "B">>, deps |-> << >>], [sts |-> <<"B">>, deps |-> <<"A">>]}

InitHooks ==
    /\ regs \in {<<NewRegistration(Container, "A", la, NoName, NoTeardown),
                   NewRegistration(Container, "B", transient, NoName, NoTeardown)>> :
                    la \in {transient, once_per_graph, singleton}}
    /\ registry = register_all(EmptyRegistry, regs, 1)
    /\ InitCaches

PreConfigureAny ==
    /\ Len(pcs) < MaxPcs
    /\ \E s \in HookScopes, t \in HookTargets : PreConfigure(s, t.sts, FALSE, FALSE, t.deps)

RegisterDecoratorHook ==
    /\ decorator_count < MaxHookDecs
    /\ \E st \in {"A", "B"} : RegisterDecorator(Container, st, 0)

ResolveHooked == \E s \in HookScopes, st \in {"A", "B"} : Resolve(s, st, FALSE, DefaultFilter)

NextHooks == PreConfigureAny \/ RegisterDecoratorHook \/ ResolveHooked

SpecHooks == InitHooks /\ [][NextHooks]_vars

----------------------------------------------------------------------------
(* Specification of the exits: the Container has two registrations of A.    *)
(* The first is made by a generator factory and is transient, scoped with a *)
(* sync or an async teardown, or singleton; the second is made by a         *)
(* generator or by an async generator factory and is scoped, with or        *)
(* without an async teardown.  list[A] is resolved, sync and async, on the  *)
(* child 1 and on the scope nested in it, and the Container and these two   *)
(* scopes are left, as sync and as async context managers.                  *)

ExitScopes == {Container, 1, 3}

SetUpsExit ==
    {<<NewRegistration(Container, "GenA", lt[1], NoName, lt[2]),
       NewRegistration(Container, ib, scoped, NoName, tb)>> :
        lt \in {<<transient, NoTeardown>>, <<scoped, "sync">>, <<scoped, "async">>,
                <<singleton, NoTeardown>>},
        ib \in {"GenA", "AGenA"}, tb \in {NoTeardown, "async"}}

InitExit ==
    /\ regs \in SetUpsExit
    /\ registry = register_all(EmptyRegistry, regs, 1)
    /\ InitCaches

ResolveInScope == \E s \in ExitScopes \ {Container} : Resolve(s, "A", TRUE, DefaultFilter)

ResolveAsyncInScope == \E s \in ExitScopes \ {Container} : ResolveAsync(s, "A", TRUE)

ExitAny == \E s \in ExitScopes : Exit(s)

AsyncExitAny == \E s \in ExitScopes : AsyncExit(s)

NextExit ==
    ResolveInScope \/ ResolveAsyncInScope \/ RunTask \/ Complete \/ ExitAny \/ AsyncExitAny

SpecExit == InitExit /\ [][NextExit]_vars

----------------------------------------------------------------------------
(* Specification of register with a scoped_teardown: registrations of A of  *)
(* any lifespan, with no teardown, a sync or an async one, are made on the  *)
(* Container.                                                               *)

RegisterWithTeardown ==
    /\ Len(regs) < MaxRegs
    /\ \E lifespan \in Lifespans, teardown \in Teardowns :
           Register(Container, "A", lifespan, NoName, teardown)

NextRegister == RegisterWithTeardown

SpecRegister == InitLookup /\ [][NextRegister]_vars

----------------------------------------------------------------------------
(* Specification of the failures: the Container has registrations of        *)
(* B(a: A) and of C made by the factory CB(b: B), and one of A or none; A,  *)
(* B and C are resolved on the Container and on its child 1, sync and       *)
(* async.                                                                   *)

SetUpsErrors ==
    {<<NewRegistration(Container, "B", lb, NoName, NoTeardown),
       NewRegistration(Container, "CB", lc, NoName, NoTeardown)>> :
        lb \in {transient, singleton}, lc \in Lifespans}
    \cup
    {<<NewRegistration(Container, "B", transient, NoName, NoTeardown),
       NewRegistration(Container, "CB", transient, NoName, NoTeardown),
       NewRegistration(Container, "A", la, NoName, NoTeardown)>> :
        la \in {transient, singleton}}

InitErrors ==
    /\ regs \in SetUpsErrors
    /\ registry = register_all(EmptyRegistry, regs, 1)
    /\ InitCaches

ErrorScopes == {Container, 1}

ResolveAnyType == \E s \in ErrorScopes, st \in Types : Resolve(s, st, FALSE, DefaultFilter)

ResolveAsyncAnyType == \E s \in ErrorScopes, st \in Types : ResolveAsync(s, st, FALSE)

NextErrors == ResolveAnyType \/ ResolveAsyncAnyType \/ RunTask \/ Complete

SpecErrors == InitErrors /\ [][NextErrors]_vars

----------------------------------------------------------------------------
(* Specification of the failing pre-configurations: the Container has one   *)
(* registration of A, transient or singleton; pre-configurations of A whose *)
(* function returns or raises, with and without continue_on_failure, are    *)
(* registered on the Container and on its child 1, and A is resolved on     *)
(* both in between.                                                         *)

InitFail ==
    /\ regs \in {<<NewRegistration(Container, "A", la, NoName, NoTeardown)>> :
                    la \in {transient, singleton}}
    /\ registry = register_all(EmptyRegistry, regs, 1)
    /\ InitCaches

PreConfigureFailing ==
    /\ Len(pcs) < MaxPcs
    /\ \E s \in HookScopes, fails \in BOOLEAN, continue_on_failure \in BOOLEAN :
           PreConfigure(s, <<"A">>, fails, continue_on_failure, << >>)

ResolveConfigured == \E s \in HookScopes : Resolve(s, "A", FALSE, DefaultFilter)

NextFail == PreConfigureFailing \/ ResolveConfigured

SpecFail == InitFail /\ [][NextFail]_vars

----------------------------------------------------------------------------
(* Specification of the generic fallback: named and unnamed registrations   *)
(* of GInt for G[int], of GStr for G[str] and of GFallback for G are added  *)
(* to the Container and to its child 1, and G[int], G[str] and G are        *)
(* resolved on both, with the default and with the name filter, in between. *)

GenericScopes == {Container, 1}

RegisterGeneric ==
    /\ Len(regs) < MaxGenericRegs
    /\ \E s \in GenericScopes, impl \in GenericImpls, name \in Names :
           Register(s, impl, transient, name, NoTeardown)

ResolveGeneric ==
    \E s \in GenericScopes, st \in GenericAliases \cup {"G"},
       f \in {DefaultFilter, NamedFilter} : Resolve(s, st, FALSE, f)

NextGeneric == RegisterGeneric \/ ResolveGeneric

SpecGeneric == InitLookup /\ [][NextGeneric]_vars

----------------------------------------------------------------------------
(* Specification of expect_to_be_scoped: the Container expects A, unnamed   *)
(* or named, to be scoped; its child 1 and the scope nested in 1 register A *)
(* themselves, unnamed or named; A is resolved on every scope, with the     *)
(* default and with the name filter, in between.                            *)

\* Container.expect_to_be_scoped(A, name)
ExpectToBeScoped ==
    /\ Len(regs) < MaxRegs
    /\ \E name \in Names : Register(Container, "raise_error", once_per_graph, name, NoTeardown)

RegisterInScope ==
    /\ Len(regs) < MaxRegs
    /\ \E s \in {1, 3}, name \in Names : Register(s, "A", scoped, name, NoTeardown)

ResolveExpected ==
    \E s \in Scopes, f \in {DefaultFilter, NamedFilter} : Resolve(s, "A", FALSE, f)

NextExpect == ExpectToBeScoped \/ RegisterInScope \/ ResolveExpected

SpecExpect == InitLookup /\ [][NextExpect]_vars

----------------------------------------------------------------------------
(* Specification of the registration ids: A is registered, unnamed or       *)
(* named, on the Container and on its child 1; the caller keeps what the    *)
(* last register call returned and resolves A with the filter               *)
(* r.id == reg_id, on both scopes, in between.                              *)

RegisterKeepingId ==
    /\ Len(regs) < MaxRegs
    /\ \E s \in {Container, 1}, name \in Names : Register(s, "A", transient, name, NoTeardown)

ResolveById ==
    /\ reg_id # NoneValue
    /\ \E s \in {Container, 1} : Resolve(s, "A", FALSE, IdFilter)

NextIds == RegisterKeepingId \/ ResolveById

SpecIds == InitLookup /\ [][NextIds]_vars

----------------------------------------------------------------------------
(* Specification of the implementation types: the Container registers S     *)
(* with the implementation type SImpl or EmptySImpl, with any lifespan, and *)
(* S, SImpl and EmptySImpl are resolved on the Container and on its child 1 *)
(* in between.                                                              *)

RegisterWithImplementation ==
    /\ Len(regs) < MaxImplRegs
    /\ \E impl \in ImplementationTypes, lifespan \in Lifespans :
           RegisterImplementation(Container, impl, lifespan)

ResolveEitherType ==
    \E s \in {Container, 1}, st \in {"S"} \cup ImplementationTypes :
        Resolve(s, st, FALSE, DefaultFilter)

NextImplementation == RegisterWithImplementation \/ ResolveEitherType

SpecImplementation == InitLookup /\ [][NextImplementation]_vars

----------------------------------------------------------------------------
(* Specification of the bundles: containers are created and collected, and  *)
(* the four bundles are applied to the live containers, in any order.       *)

InitBundles == InitLookup

NextBundles == NewContainer \/ CollectContainer \/ ApplyBundle

SpecBundles == InitBundles /\ [][NextBundles]_vars

----------------------------------------------------------------------------
(* Dependency graphs (Scope.resolve_dependency_graph and the queries of     *)
(* DependencyNode).  last.children are the children of the root node that   *)
(* the call returns.                                                        *)

\* DependencyNode.service_type; the node of a collection has list[...]
node_service_type(n) == IF n.reg = 0 THEN "list" ELSE regs[n.reg].service_type

\* DependencyNode.children as the queries see it: add_decorator puts the
\* decorator node in the place of the node it decorates, which it keeps in
\* .decorated, and no decorator of the catalogue has parameters of its own
node_children(n) == IF n.decs = << >> THEN n.children ELSE << >>

\* DependencyNode.has_dependant_service_type of a node with these children
RECURSIVE has_dependant_service_type(_, _)
has_dependant_service_type(children, service_type) ==
    \E i \in 1..Len(children) :
        \/ node_service_type(children[i]) = service_type
        \/ has_dependant_service_type(node_children(children[i]), service_type)

(* Specification of the graphs: the Container has a registration of A,     *)
(* once per graph or singleton, one of B(a: A), transient, scoped or        *)
(* singleton, and a transient one of C(a: A, b: B); a decorator of B may be *)
(* registered on the Container; A, B, C and their lists are resolved on the *)
(* Container and on its child 1, and B and C with resolve_async on the      *)
(* Container.                                                               *)

GraphScopes == {Container, 1}

SetUpsGraph ==
    {<<NewRegistration(Container, "A", la, NoName, NoTeardown),
       NewRegistration(Container, "B", lb, NoName, NoTeardown),
       NewRegistration(Container, "C", transient, NoName, NoTeardown)>> :
        la \in {once_per_graph, singleton}, lb \in {transient, scoped, singleton}}

InitGraph ==
    /\ regs \in SetUpsGraph
    /\ registry = register_all(EmptyRegistry, regs, 1)
    /\ InitCaches

RegisterDecoratorGraph ==
    /\ decorator_count < MaxHookDecs
    /\ RegisterDecorator(Container, "B", 0)

ResolveGraph ==
    \E s \in GraphScopes, st \in Types, collection \in BOOLEAN :
        Resolve(s, st, collection, DefaultFilter)

ResolveAsyncGraph == \E st \in {"B", "C"} : ResolveAsync(Container, st, FALSE)

NextGraph == RegisterDecoratorGraph \/ ResolveGraph \/ ResolveAsyncGraph \/ RunTask \/ Complete

SpecGraph == InitGraph /\ [][NextGraph]_vars

----------------------------------------------------------------------------
(* Specification of the parallel callers: the Container has a scoped or     *)
(* singleton registration of A with the async factory AsyncA, which awaits  *)
(* an event before it returns, and a transient one of B(a: A); two callers  *)
(* on one event loop call resolve_async for A or B on the Container or on   *)
(* its child 1, each while the other's call may be suspended.               *)

RaceScopes == {Container, 1}

SetUpsRace ==
    {<<NewRegistration(Container, "AsyncA", la, NoName, NoTeardown),
       NewRegistration(Container, "B", transient, NoName, NoTeardown)>> :
        la \in {scoped, singleton}}

InitRace ==
    /\ regs \in SetUpsRace
    /\ registry = register_all(EmptyRegistry, regs, 1)
    /\ InitCaches

peerUnchanged == UNCHANGED <<acall, reg_id, bundleVars, twin>>

ResolveAsyncRace == \E s \in RaceScopes, st \in {"A", "B"} : ResolveAsync(s, st, FALSE)

ResolveAsyncPeer ==
    /\ \E s \in RaceScopes, st \in {"A", "B"} : ResolveAsyncOf(peer, peer', s, st, FALSE)
    /\ peerUnchanged

RunTaskPeer == RunTaskOf(peer, peer') /\ peerUnchanged

WakePeer == (\E t \in RegIds : WakeOf(peer, peer', t)) /\ peerUnchanged

CompletePeer == CompleteOf(peer, peer') /\ peerUnchanged

NextRace ==
    \/ ResolveAsyncRace \/ RunTask \/ WakeAny \/ Complete
    \/ ResolveAsyncPeer \/ RunTaskPeer \/ WakePeer \/ CompletePeer

SpecRace == InitRace /\ [][NextRace]_vars

----------------------------------------------------------------------------
(* Specification of the two paths: the Container has a registration of A    *)
(* made by the class or by a generator factory, a later transient one made  *)
(* by the class or by a factory that raises, and a transient one of         *)
(* B(a: A); no factory is async.  A, B and their lists are resolved on the  *)
(* Container and on its child 1 with resolve and with resolve_async, one    *)
(* call at a time, and of every resolve_async call the outcome that resolve *)
(* would have had in its place is kept.                                     *)

TwinScopes == {Container, 1}

SetUpsTwin ==
    {<<NewRegistration(Container, ia, la, NoName, NoTeardown),
       NewRegistration(Container, ib, transient, NoName, NoTeardown),
       NewRegistration(Container, "B", transient, NoName, NoTeardown)>> :
        ia \in {"A", "GenA"}, la \in {transient, scoped, singleton},
        ib \in {"A", "raise_error"}}

InitTwin ==
    /\ regs \in SetUpsTwin
    /\ registry = register_all(EmptyRegistry, regs, 1)
    /\ InitCaches

ResolveTwin ==
    /\ ~acall.active
    /\ \E s \in TwinScopes, st \in {"A", "B"}, collection \in BOOLEAN :
           Resolve(s, st, collection, DefaultFilter)

ResolveAsyncTwin ==
    \E s \in TwinScopes, st \in {"A", "B"}, collection \in BOOLEAN :
        /\ ResolveAsyncOf(acall, acall', s, st, collection)
        /\ twin' = outcome(resolve(s, st, collection, DefaultFilter))
        /\ UNCHANGED <<reg_id, bundleVars, peer>>

NextTwin == ResolveTwin \/ ResolveAsyncTwin \/ RunTask \/ Complete

SpecTwin == InitTwin /\ [][NextTwin]_vars

----------------------------------------------------------------------------
(* Specification of the aborted builds: the Container has a scoped or       *)
(* singleton registration of A, made by the class A, by the class EmptyA    *)
(* whose objects are false, or by a factory that raises, a once per graph   *)
(* or singleton one of B(a: A) and a transient one of C(a: A, b: B).  A     *)
(* pre-configuration that raises may be registered for A or B and a         *)
(* decorator that raises for B or C, at any time; A, B and C are resolved   *)
(* on the Container and on its child 1, with resolve and resolve_async.     *)

AbortScopes == {Container, 1}

SetUpsAbort ==
    {<<NewRegistration(Container, ia, la, NoName, NoTeardown),
       NewRegistration(Container, "B", lb, NoName, NoTeardown),
       NewRegistration(Container, "C", transient, NoName, NoTeardown)>> :
        ia \in {"A", "EmptyA", "raise_error"}, la \in {scoped, singleton},
        lb \in {once_per_graph, singleton}}

InitAbort ==
    /\ regs \in SetUpsAbort
    /\ registry = register_all(EmptyRegistry, regs, 1)
    /\ InitCaches

PreConfigureAbort ==
    /\ Len(pcs) < MaxHookDecs
    /\ \E st \in {"A", "B"} : PreConfigure(Container, <<st>>, TRUE, FALSE, << >>)

RegisterDecoratorAbort ==
    /\ decorator_count < MaxHookDecs
    /\ \E st \in {"B", "C"} : RegisterRaisingDecorator(Container, st)

ResolveAbort ==
    /\ ~acall.active
    /\ \E s \in AbortScopes, st \in Types : Resolve(s, st, FALSE, DefaultFilter)

ResolveAsyncAbort == \E s \in AbortScopes, st \in Types : ResolveAsync(s, st, FALSE)

NextAbort ==
    \/ PreConfigureAbort \/ RegisterDecoratorAbort
    \/ ResolveAbort \/ ResolveAsyncAbort \/ RunTask \/ Complete

SpecAbort == InitAbort /\ [][NextAbort]_vars

----------------------------------------------------------------------------
(* Vocabulary of the properties.                                            *)

Ids == 1..Len(regs)
IsResolve(c) == c.op = "resolve"
Max(S) == CHOOSE x \in S : \A y \in S : y <= x

RECURSIVE SortDesc(_)
SortDesc(S) == IF S = {} THEN << >> ELSE <<Max(S)>> \o SortDesc(S \ {Max(S)})

\* the registrations made on scope sc for st that f accepts, by what the
\* register calls were (not by what the deques hold)
MadeOn(rs, sc, st, f) ==
    {r \in 1..Len(rs) : rs[r].owner = sc /\ rs[r].service_type = st /\
        CASE f = DefaultFilter -> rs[r].name = NoName
          [] f = NamedFilter   -> rs[r].name # NoName
          [] OTHER             -> TRUE}

RECURSIVE ExpectedCandidates(_, _, _, _)
ExpectedCandidates(rs, s, st, f) ==
    SortDesc(MadeOn(rs, s, st, f)) \o
        (IF s = Container THEN << >> ELSE ExpectedCandidates(rs, _parent_scope(s), st, f))

Siblings(s1, s2) ==
    /\ s1 # s2 /\ s1 # Container /\ s2 # Container
    /\ _parent_scope(s1) = _parent_scope(s2)

BuiltOn(X, r) == {b \in built : b.scope = X /\ b.inst.reg = r}
LastBuiltOn(X, r) ==
    CHOOSE n \in {b.inst : b \in BuiltOn(X, r)} :
        \A b \in BuiltOn(X, r) : b.inst.k <= n.k

Requests(c) == {c.reqs[i] : i \in 1..Len(c.reqs)}

----------------------------------------------------------------------------
(* C1 - every resolve call that returns an instance of a singleton          *)
(* registration, on whichever scope, returns the same instance.             *)
C1_SingletonIdentical ==
    \A x \in handed, y \in handed : x.reg = y.reg => x = y

(* C2 - the implementation of a singleton registration is invoked at most   *)
(* once, whatever the truth value of the object it returns.                 *)
C2_SingletonActivatedOnce ==
    \A r \in Ids : regs[r].lifespan = singleton => acts[r] <= 1

(* C3 - once a scoped registration was built by a resolve call on scope X,  *)
(* every later request for it in a resolve call on X or on a descendant of  *)
(* X is served with that instance, without a new activation.                *)
C3_ScopedReuse ==
    [][IsResolve(last') =>
        \A e \in Requests(last') :
            regs[e.reg].lifespan = scoped =>
                \A X \in AncestorsOrSelf(last'.scope) :
                    BuiltOn(X, e.reg) # {} =>
                        e.hit /\ e.inst = LastBuiltOn(X, e.reg)]_vars

(* C4 - for a scoped registration made on the Container, the instances      *)
(* returned on two sibling child scopes are distinct.                       *)
C4_SiblingsDistinct ==
    \A x \in returned, y \in returned :
        (/\ Siblings(x.scope, y.scope)
         /\ x.inst.reg = y.inst.reg
         /\ regs[x.inst.reg].owner = Container) => x.inst # y.inst

(* C4 as amended - two sibling child scopes return distinct instances of a  *)
(* scoped registration made on the Container unless the instance was built  *)
(* by a resolve call on an ancestor of both before: an instance both        *)
(* siblings return was made by a call on an ancestor scope, never by a call *)
(* on one of the siblings or on another scope.                              *)
C4_SiblingsDistinctUnlessAncestorBuilt ==
    \A x \in returned, y \in returned :
        (/\ Siblings(x.scope, y.scope)
         /\ x.inst.reg = y.inst.reg
         /\ regs[x.inst.reg].owner = Container
         /\ x.inst = y.inst)
        => \E b \in built : b.inst = x.inst /\ b.scope \in AncestorsOrSelf(_parent_scope(x.scope))

C4_Witness ==
    \E x \in returned, y \in returned :
        /\ Siblings(x.scope, y.scope)
        /\ x.inst.reg = y.inst.reg
        /\ regs[x.inst.reg].owner = Container
        /\ x.inst # y.inst

(* C5 - within one root resolve call all requests for a once_per_graph      *)
(* registration get the same instance, made by one activation, and that     *)
(* instance is not one that an earlier call had.                            *)
C5_OncePerGraph ==
    [][IsResolve(last') =>
        \A e \in Requests(last') :
            regs[e.reg].lifespan = once_per_graph =>
                /\ \A e2 \in Requests(last') : e2.reg = e.reg => e2.inst = e.inst
                /\ acts'[e.reg] = acts[e.reg] + 1
                /\ e.inst.k > acts[e.reg]]_vars

(* C6 - in a resolve_async call for a collection, a once_per_graph, scoped *)
(* or singleton registration with a suspending factory is activated at most *)
(* once, and all requests of the call for it get the same instance.         *)
C6_GatherActivatesSharedOnce ==
    (last.op = "resolve_async" /\ last.collection /\ last.ok) =>
        \A r \in Ids :
            (regs[r].lifespan >= once_per_graph /\ ImplSuspends(regs[r].implementation)) =>
                /\ Cardinality({i \in 1..Len(last.reqs) :
                                   last.reqs[i].reg = r /\ ~last.reqs[i].hit}) <= 1
                /\ \A i, j \in 1..Len(last.reqs) :
                      (last.reqs[i].reg = r /\ last.reqs[j].reg = r)
                          => last.reqs[i].inst = last.reqs[j].inst

(* C7 - every request for a transient registration is served by a new       *)
(* activation with an instance no other request has, and no node of a       *)
(* transient registration lies in the per-call, a scoped or the singleton   *)
(* cache.                                                                   *)
C7_TransientNeverCached ==
    [][IsResolve(last') =>
        /\ \A i \in 1..Len(last'.reqs) :
              LET e == last'.reqs[i] IN
              regs[e.reg].lifespan = transient =>
                  /\ ~e.hit
                  /\ e.inst.k > acts[e.reg]
                  /\ \A j \in 1..Len(last'.reqs) : j # i => last'.reqs[j].inst # e.inst
        /\ \A r \in Ids :
              regs[r].lifespan = transient =>
                  /\ last'.cur[r] = NoNode
                  /\ singletons'[r] = NoNode
                  /\ \A s \in Scopes : scoped_instances'[s][r] = NoNode]_vars

C7_Witness ==
    /\ IsResolve(last)
    /\ \E i \in 1..Len(last.reqs), j \in 1..Len(last.reqs) :
          /\ i # j
          /\ last.reqs[i].reg = last.reqs[j].reg
          /\ regs[last.reqs[i].reg].lifespan = transient
          /\ regs[last.reqs[i].reg].service_type = "A"

(* C8 - a resolve with the default filter returns an instance of the most   *)
(* recently registered unnamed registration of the service type among those *)
(* the scope sees, never of a named one, and fails iff there is no unnamed  *)
(* one.                                                                     *)
C8_DefaultResolvesMostRecentUnnamed ==
    (IsResolve(last) /\ ~last.collection /\ last.filter = DefaultFilter) =>
        LET V == UNION {MadeOn(regs, sc, last.st, DefaultFilter) :
                            sc \in AncestorsOrSelf(last.scope)}
        IN IF V = {} THEN ~last.ok
           ELSE last.ok /\ last.val.reg = Max(V)

NearestWithUnnamed(s, st) ==
    LET ch == ScopeChain(s)
        I == {i \in 1..Len(ch) : MadeOn(regs, ch[i], st, DefaultFilter) # {}}
    IN IF I = {} THEN << >> ELSE <<ch[CHOOSE i \in I : \A j \in I : i <= j]>>

(* C8 as amended - a resolve with the default filter on scope X returns an  *)
(* instance of the most recently registered unnamed registration of the     *)
(* service type made on the nearest scope of X's chain (X, its parent, ...  *)
(* the Container) that has an unnamed one, never of a named registration,   *)
(* and fails iff no scope of the chain has an unnamed one.                  *)
C8_DefaultResolvesNearestUnnamed ==
    (IsResolve(last) /\ ~last.collection /\ last.filter = DefaultFilter) =>
        LET near == NearestWithUnnamed(last.scope, last.st)
        IN IF near = << >> THEN ~last.ok
           ELSE /\ last.ok
                /\ last.val.reg = Max(MadeOn(regs, near[1], last.st, DefaultFilter))
                /\ regs[last.val.reg].name = NoName

C8_Witness ==
    /\ IsResolve(last) /\ ~last.collection /\ last.filter = DefaultFilter /\ last.ok
    /\ \E r \in Ids : r > last.val.reg /\ regs[r].name # NoName
                        /\ regs[r].owner = regs[last.val.reg].owner
    /\ \E r \in Ids : r < last.val.reg /\ regs[r].name # NoName
                        /\ regs[r].owner = regs[last.val.reg].owner

C10_ChildRegistrationInvisible ==
    [][(Len(regs') = Len(regs) + 1) =>
        LET c == regs'[Len(regs')].owner IN
        /\ \A s \in Scopes :
              c \notin AncestorsOrSelf(s) =>
                  \A st \in Types, f \in Filters :
                      find_registrations(regs', registry', s, st, f)
                          = find_registrations(regs, registry, s, st, f)
        /\ \A s \in Scopes, st \in Types, f \in Filters :
              LET found == find_registrations(regs', registry', s, st, f) IN
              \A i \in 1..Len(found) : regs'[found[i]].owner \in AncestorsOrSelf(s)]_vars

C10_Witness ==
    /\ last.op = "register"
    /\ regs[Len(regs)].owner # Container
    /\ find_registrations(regs, registry, Container, "A", AnyFilter) # << >>
    /\ \E s \in Scopes : Siblings(s, regs[Len(regs)].owner)

----------------------------------------------------------------------------
(* Decorators.                                                              *)

\* the decorators registered for st on the scopes from s up to the Container
DecoratorsInReach(s, st) ==
    UNION {{decorators[x][st][i] : i \in 1..Len(decorators[x][st])} :
              x \in AncestorsOrSelf(s)}

\* x wraps the object before y does, by the rule of one store: the lower
\* position first, of two equal positions the one registered later first
BeforeInStore(x, y) ==
    \/ x.position < y.position
    \/ x.position = y.position /\ x.index > y.index

Decs(c) == c.val.decs
BuiltDecorated(c) == IsResolve(c) /\ c.ok /\ ~c.collection /\ c.val # NoNode

(* C11 - the decorators applied by a build, innermost first, are in         *)
(* ascending position, and the outermost wrapper is the decorator with the  *)
(* highest position of all the decorators that apply.                       *)
C11_AppliedInAscendingPosition ==
    BuiltDecorated(last) =>
        /\ \A i \in 1..Len(Decs(last)), j \in 1..Len(Decs(last)) :
               i < j => Decs(last)[i].position <= Decs(last)[j].position
        /\ Decs(last) # << >> =>
               \A d \in DecoratorsInReach(last.scope, last.st) :
                   d.position <= Decs(last)[Len(Decs(last))].position

(* C11, amended - a build on scope s applies every decorator registered for *)
(* the service type on s and on its ancestors, each once; the decorators of *)
(* one scope are applied innermost-first in ascending position, the later   *)
(* registered first among equal positions, and the decorators of a scope    *)
(* are applied before (inside) those of its ancestors.                      *)
C11_AppliedPerScopeInAscendingPosition ==
    BuiltDecorated(last) =>
        /\ {Decs(last)[i] : i \in 1..Len(Decs(last))} = DecoratorsInReach(last.scope, last.st)
        /\ Len(Decs(last)) = Cardinality(DecoratorsInReach(last.scope, last.st))
        /\ \A i \in 1..Len(Decs(last)), j \in 1..Len(Decs(last)) :
               i < j =>
                   LET x == Decs(last)[i]
                       y == Decs(last)[j]
                   IN IF x.owner = y.owner THEN BeforeInStore(x, y)
                      ELSE y.owner \in AncestorsOrSelf(x.owner)

\* a build on child 1 wrapped by three decorators: two of one scope with the
\* same position, and one of the other scope
C11_Witness ==
    /\ BuiltDecorated(last) /\ last.scope = 1 /\ Len(Decs(last)) = 3
    /\ \E i \in 1..3, j \in 1..3 :
           /\ i # j /\ Decs(last)[i].owner = Decs(last)[j].owner
           /\ Decs(last)[i].position = Decs(last)[j].position
    /\ \E i \in 1..3, j \in 1..3 : Decs(last)[i].owner # Decs(last)[j].owner

----------------------------------------------------------------------------
(* Pre-configurations.                                                      *)

PcIds == 1..Len(pcs)

(* C12 - a pre-configuration whose function returns normally is invoked at  *)
(* most once, whatever resolve calls are made on whichever scopes, also     *)
(* when it was registered for several service types at once.                *)
C12_PreConfigurationRunsOnce ==
    \A c \in PcIds : ~pcs[c].fails => pcs[c].runs <= 1

----------------------------------------------------------------------------
(* The steps of a build.                                                    *)

Log(c) == c.log
Builds(c) == {Log(c)[i].b : i \in 1..Len(Log(c))}
EventsOf(c, b, kind) == {i \in 1..Len(Log(c)) : Log(c)[i].b = b /\ Log(c)[i].kind = kind}
Cached(c, b) == EventsOf(c, b, "cached") # {}
BuildReg(c, b) == Log(c)[CHOOSE i \in 1..Len(Log(c)) : Log(c)[i].b = b].reg

StepRank(kind) ==
    CASE kind = "pre_configuration" -> 1
      [] kind = "parameters"        -> 2
      [] kind = "resolved"          -> 3
      [] kind = "activate"          -> 4
      [] kind = "decorate"          -> 5
      [] kind = "cache"             -> 6
      [] OTHER                      -> 0

\* the pre-configurations registered for st on the scopes from s up to the
\* Container
PreConfigurationsInReach(s, st) ==
    UNION {{pre_configurations[x][st][i] : i \in 1..Len(pre_configurations[x][st])} :
              x \in AncestorsOrSelf(s)}

(* C13 - in a resolve call that succeeds, every build that is not served    *)
(* from a cache takes its steps in the order: pre-configurations, the start *)
(* and the end of the resolution of the parameters, the activation, the     *)
(* decorators, the store in the cache; every matching pre-configuration has *)
(* run, in this call before the parameters are resolved or in an earlier    *)
(* call, every applicable decorator is                                      *)
(* applied, and the Node is in the cache of its lifespan.  A build          *)
(* served from a cache takes no step at all, also when pre-configurations   *)
(* or decorators were registered after the instance was cached.             *)
C13_BuildStepOrder ==
    (IsResolve(last) /\ last.ok) =>
        \A b \in Builds(last) :
            LET r == BuildReg(last, b)
                st == regs[r].service_type
            IN IF Cached(last, b)
               THEN \A i \in 1..Len(Log(last)) :
                        Log(last)[i].b = b => Log(last)[i].kind = "cached"
               ELSE /\ \A i \in 1..Len(Log(last)), j \in 1..Len(Log(last)) :
                           (i < j /\ Log(last)[i].b = b /\ Log(last)[j].b = b) =>
                               StepRank(Log(last)[i].kind) <= StepRank(Log(last)[j].kind)
                    /\ \A kind \in {"parameters", "resolved", "activate", "cache"} :
                           Cardinality(EventsOf(last, b, kind)) = 1
                    /\ \A c \in PreConfigurationsInReach(last.scope, st) :
                           \/ \E i \in 1..Len(Log(last)) :
                                  /\ Log(last)[i].kind = "pre_configuration"
                                  /\ Log(last)[i].pc = c
                                  /\ \A j \in EventsOf(last, b, "parameters") : i < j
                           \/ /\ pcs[c].has_run
                              /\ \A k \in 1..Len(Log(last)) : Log(last)[k].pc # c
                    /\ {Log(last)[i].dec : i \in EventsOf(last, b, "decorate")}
                           = DecoratorsInReach(last.scope, st)
                    /\ \A e \in Requests(last) :
                           (e.reg = r /\ ~e.hit) =>
                               CASE regs[r].lifespan = singleton -> singletons[r] = e.inst
                                 [] regs[r].lifespan = scoped ->
                                        scoped_instances[last.scope][r] = e.inst
                                 [] regs[r].lifespan = once_per_graph -> last.cur[r] = e.inst
                                 [] OTHER -> last.cur[r] = NoNode

\* a resolve of B on which a pre-configuration and a decorator of B act,
\* while its parameter A comes from the singleton cache although a
\* pre-configuration of A is still pending
C13_Witness ==
    /\ IsResolve(last) /\ last.ok /\ last.st = "B"
    /\ \E b \in Builds(last) :
           /\ regs[BuildReg(last, b)].service_type = "B"
           /\ EventsOf(last, b, "pre_configuration") # {}
           /\ EventsOf(last, b, "decorate") # {}
           /\ EventsOf(last, b, "cache") # {}
    /\ \E b \in Builds(last) :
           /\ regs[BuildReg(last, b)].service_type = "A"
           /\ Cached(last, b)
           /\ \E c \in PreConfigurationsInReach(last.scope, "A") : ~pcs[c].has_run

----------------------------------------------------------------------------
(* Leaving a scope.                                                         *)

IsExit(c) == c.op \in {"exit", "aexit"}
ExitEvents(c, kind) == {i \in 1..Len(c.log) : c.log[i].kind = kind}

\* all finalizers there are, each with the scope whose deque holds it
Finalizers == UNION {{[at |-> x, f |-> finalizers[x][i]] : i \in 1..Len(finalizers[x])} :
                        x \in Scopes}
FinalizersPrimed ==
    UNION {{[at |-> x, f |-> finalizers'[x][i]] : i \in 1..Len(finalizers'[x])} :
              x \in Scopes}

\* the scope that owns a finalizer, by the claim: the Container for a
\* singleton, else the scope the resolve call was made on
OwningScope(f) == IF f.lifespan = singleton THEN Container ELSE f.by

(* C14 - when a scope is left, every scoped-teardown callback is called     *)
(* before any finalizer, and the finalizers are called in the reverse of    *)
(* the order of their creation.                                             *)
C14_TeardownsThenFinalizersReversed ==
    IsExit(last) =>
        /\ \A i \in ExitEvents(last, "teardown"), j \in ExitEvents(last, "finalizer") : i < j
        /\ \A i \in ExitEvents(last, "finalizer"), j \in ExitEvents(last, "finalizer") :
               i < j => last.log[i].n > last.log[j].n
        /\ {last.log[i].n : i \in ExitEvents(last, "finalizer")}
               = {x.f.n : x \in {y \in Finalizers : y.at = last.scope}}

\* a sync exit that calls a teardown and then runs the cleanup of two
\* generator factories
C14_Witness ==
    /\ last.op = "exit"
    /\ ExitEvents(last, "teardown") # {}
    /\ Cardinality({i \in ExitEvents(last, "finalizer") : last.log[i].ran}) >= 2

(* C15 - the cleanup of a generator factory runs only in a step that leaves *)
(* the scope that owns its finalizer: the scope the resolve call was made   *)
(* on, or the Container if the registration is a singleton.                 *)
C15_FinalizerRunsAtOwnersExit ==
    [][\A x \in FinalizersPrimed :
          (x.f.done /\ ~(\E y \in Finalizers : y.f.n = x.f.n /\ y.f.done)) =>
              /\ IsExit(last')
              /\ last'.scope = OwningScope(x.f)]_vars

\* the Container is left and the cleanup of a singleton that was built by a
\* resolve call on the nested scope 3 has run
C15_Witness ==
    /\ IsExit(last) /\ last.scope = Container
    /\ \E i \in ExitEvents(last, "finalizer") :
           /\ last.log[i].ran
           /\ \E x \in Finalizers :
                  /\ x.f.n = last.log[i].n
                  /\ x.f.lifespan = singleton /\ x.f.by = 3 /\ x.f.done

(* C16 - when a scope has been left, as a sync or as an async context       *)
(* manager, the cleanup of every generator factory activated there has run. *)
C16_FinalizersRunOnEveryExit ==
    IsExit(last) => \A x \in Finalizers : x.at = last.scope => x.f.done

\* the registrations with a teardown of the kind that have a node cached on s
CachedWithTeardown(s, kind) ==
    {r \in Ids : regs[r].scoped_teardown = kind /\ scoped_instances[s][r] # NoNode}

TeardownCalls(c, kind) ==
    {<<c.log[i].reg, c.log[i].inst>> :
        i \in {j \in ExitEvents(c, "teardown") : c.log[j].mode = kind}}

(* C17 - a sync exit of a scope calls the sync teardown of every            *)
(* registration built in the scope, once, with the cached instance, and no  *)
(* async teardown; an async exit calls the async and the sync ones.         *)
C17_TeardownsByExitKind ==
    IsExit(last) =>
        /\ TeardownCalls(last, "sync") =
               {<<r, scoped_instances[last.scope][r]>> :
                   r \in CachedWithTeardown(last.scope, "sync")}
        /\ TeardownCalls(last, "async") =
               IF last.op = "exit" THEN {}
               ELSE {<<r, scoped_instances[last.scope][r]>> :
                        r \in CachedWithTeardown(last.scope, "async")}
        /\ Cardinality(ExitEvents(last, "teardown")) =
               Cardinality(TeardownCalls(last, "sync")) +
               Cardinality(TeardownCalls(last, "async"))

\* a sync exit of a scope that has built a registration with a sync and one
\* with an async teardown
C17_Witness ==
    /\ last.op = "exit"
    /\ CachedWithTeardown(last.scope, "sync") # {}
    /\ CachedWithTeardown(last.scope, "async") # {}
    /\ TeardownCalls(last, "sync") # {}

(* C18 - register with a scoped_teardown is accepted if the lifespan is     *)
(* scoped or singleton and is rejected, leaving the registry as it was, if  *)
(* the lifespan is transient or once_per_graph.                             *)
C18_TeardownOnlyForScopedOrSingleton ==
    [][(last'.op = "register" /\ last'.teardown # NoTeardown) =>
          IF last'.lifespan \in {scoped, singleton}
          THEN last'.ok /\ Len(regs') = Len(regs) + 1
          ELSE ~last'.ok /\ regs' = regs /\ registry' = registry]_vars

----------------------------------------------------------------------------
(* Resolution errors.                                                       *)

Registered(st) == \E r \in Ids : regs[r].service_type = st

\* a resolve of C has failed because C depends on B, B depends on A, and A
\* is not registered
FailedForMissingA(c) ==
    /\ c.op \in {"resolve", "resolve_async"} /\ c.st = "C" /\ ~c.collection
    /\ ~c.ok /\ c.exc = "CannotResolveError"
    /\ Registered("C") /\ Registered("B") /\ ~Registered("A")

\* the boxes of a rendered chain, top to bottom, as <<requesting
\* implementation, requested service type>>
Boxes(chain) ==
    LET boxes == SelectSeq(chain, LAMBDA x : x.kind = "box")
    IN [i \in 1..Len(boxes) |-> <<boxes[i].implementation, boxes[i].service_type>>]

----------------------------------------------------------------------------
(* Failing pre-configurations.                                              *)

\* the pre-configurations the call has invoked
InvokedIn(c) == {c.log[i].pc : i \in {j \in 1..Len(c.log) : c.log[j].kind = "pre_configuration"}}

(* C20 - a pre-configuration registered with continue_on_failure whose      *)
(* function raises does not abort the resolve call, and it is not invoked   *)
(* again by any later build.                                                *)
C20_ContinueOnFailureRunsOnce ==
    /\ IsResolve(last) =>
           \/ last.ok
           \/ \E c \in InvokedIn(last) : pcs[c].fails /\ ~pcs[c].continue_on_failure
    /\ \A c \in PcIds :
           (pcs[c].fails /\ pcs[c].continue_on_failure) => pcs[c].runs <= 1

\* the pre-configuration raises and was registered without continue_on_failure
Raises(c) == pcs[c].fails /\ ~pcs[c].continue_on_failure

\* the resolve call c has invoked a pre-configuration that raises
Aborted(c) == IsResolve(c) /\ \E x \in InvokedIn(c) : Raises(x)

(* C21 - when a pre-configuration registered without continue_on_failure    *)
(* raises, the resolve call fails with that exception, the registration is  *)
(* not activated and nothing is cached for it, the pre-configuration stays  *)
(* pending, and the next resolve call that finds it invokes it again unless *)
(* another raising pre-configuration aborts that call first.                *)
C21_FailingPreConfigurationAborts ==
    [][/\ Aborted(last') =>
              /\ ~last'.ok /\ last'.exc = "Exception" /\ last'.val = NoNode
              /\ last'.reqs = << >>
              /\ \A i \in 1..Len(last'.log) : last'.log[i].kind = "pre_configuration"
              /\ acts' = acts /\ singletons' = singletons
              /\ scoped_instances' = scoped_instances
              /\ \A r \in Ids : singletons[r] = NoNode
              /\ \A x \in InvokedIn(last') : Raises(x) => ~pcs'[x].has_run
       /\ \A x \in InvokedIn(last) :
              (Aborted(last) /\ Raises(x) /\ IsResolve(last')
                 /\ x \in PreConfigurationsInReach(last'.scope, "A"))
              => /\ Aborted(last')
                 /\ \/ x \in InvokedIn(last')
                    \/ \E y \in InvokedIn(last') : y # x /\ Raises(y)]_vars

\* a raising pre-configuration has been invoked by two resolve calls, both
\* aborted, and the singleton has not been built
C21_Witness ==
    /\ Aborted(last)
    /\ \E x \in InvokedIn(last) : Raises(x) /\ pcs[x].runs = 2 /\ ~pcs[x].has_run
    /\ regs[1].lifespan = singleton /\ singletons[1] = NoNode /\ acts[1] = 0

----------------------------------------------------------------------------
(* Generic aliases.                                                         *)

\* the registrations a resolve of st on scope s with filter f can see, the
\* scope's own first
Filed(s, st, f) == find_registrations(regs, registry, s, st, f)

(* C22 - a resolve of a generic alias G[X] builds the first registration    *)
(* filed under G[X] that passes the filter; if there is none, the first     *)
(* one filed under the origin type G that passes the filter; if there is    *)
(* none either it raises CannotResolveError.  A registration filed under    *)
(* another alias is never built.                                            *)
C22_GenericFallback ==
    (IsResolve(last) /\ last.st \in GenericAliases) =>
        LET alias == Filed(last.scope, last.st, last.filter)
            origin == Filed(last.scope, "G", last.filter)
        IN /\ alias # << >> => last.ok /\ last.val.reg = Head(alias)
           /\ (alias = << >> /\ origin # << >>) => last.ok /\ last.val.reg = Head(origin)
           /\ (alias = << >> /\ origin = << >>) =>
                  ~last.ok /\ last.exc = "CannotResolveError" /\ last.val = NoNode
           /\ last.ok => regs[last.val.reg].service_type \in {last.st, "G"}

\* a resolve of G[int] has built the fallback although a registration of
\* G[int] exists (the filter rejects it)
C22_Witness ==
    /\ IsResolve(last) /\ last.st = "G[int]" /\ last.ok
    /\ regs[last.val.reg].implementation = "GFallback"
    /\ \E r \in Ids : regs[r].service_type = "G[int]"

----------------------------------------------------------------------------
(* Collections of named and unnamed registrations.                          *)

\* the registrations whose instances the list v holds, and the place of r
RegsOf(v) == {v[i].reg : i \in 1..Len(v)}
PlaceOf(v, r) == CHOOSE i \in 1..Len(v) : v[i].reg = r

\* u is an unnamed and n a named registration of A made on scope s
UnnamedAndNamedOn(s, u, n) ==
    /\ regs[u].owner = s /\ regs[n].owner = s
    /\ regs[u].service_type = "A" /\ regs[n].service_type = "A"
    /\ regs[u].name = NoName /\ regs[n].name # NoName

(* C23 - with an unnamed and a named registration of A on a scope, a        *)
(* resolve of list[A] on that scope without a filter argument returns the   *)
(* instances of both, the more recently registered first.                   *)
C23_ListWithoutFilterHoldsBoth ==
    (IsResolve(last) /\ last.collection /\ last.filter = DefaultFilter) =>
        \A u, n \in Ids :
            UnnamedAndNamedOn(last.scope, u, n) =>
                /\ last.ok /\ {u, n} \subseteq RegsOf(last.val)
                /\ (u > n) = (PlaceOf(last.val, u) < PlaceOf(last.val, n))

(* C23, amended - the filter argument of resolve defaults to the filter     *)
(* that accepts unnamed registrations only, for a list as for a single      *)
(* service: without a filter argument the list holds an instance of the     *)
(* unnamed registration and none of a named one; with a filter that accepts *)
(* every registration it holds both, the more recently registered first.    *)
C23_ListHoldsWhatTheFilterAccepts ==
    (IsResolve(last) /\ last.collection) =>
        /\ last.ok
        /\ last.filter = DefaultFilter =>
               \A r \in RegsOf(last.val) : regs[r].name = NoName
        /\ \A u, n \in Ids :
               UnnamedAndNamedOn(last.scope, u, n) =>
                   IF last.filter = DefaultFilter
                   THEN u \in RegsOf(last.val) /\ n \notin RegsOf(last.val)
                   ELSE /\ {u, n} \subseteq RegsOf(last.val)
                        /\ (u > n) = (PlaceOf(last.val, u) < PlaceOf(last.val, n))

\* a resolve of list[A] without a filter argument on a scope with an unnamed
\* and a more recent named registration has returned one instance
C23_Witness ==
    /\ IsResolve(last) /\ last.collection /\ last.filter = DefaultFilter
    /\ \E u, n \in Ids : UnnamedAndNamedOn(last.scope, u, n) /\ n > u
    /\ Len(last.val) = 1

----------------------------------------------------------------------------
(* expect_to_be_scoped.                                                     *)

\* the registrations of A made on scope s that the filter f accepts
OwnAccepted(s, f) ==
    {r \in Ids : /\ regs[r].owner = s /\ regs[r].service_type = "A"
                 /\ filter_accepts(regs, f, r)}

(* C24 - once the Container expects A to be scoped, a resolve of A on the   *)
(* Container raises NeedsScopedRegistrationError, which is not a resolution *)
(* error and carries no dependency chain, and builds nothing; a resolve on  *)
(* a child scope that has registered A itself returns an instance of the    *)
(* scope's own registration.                                                *)
C24_ExpectToBeScoped ==
    (IsResolve(last) /\ ~last.collection) =>
        /\ (last.scope = Container /\ OwnAccepted(Container, last.filter) # {}) =>
               /\ ~last.ok /\ last.exc = "NeedsScopedRegistrationError"
               /\ last.exc # "CannotResolveError" /\ last.frames = << >>
               /\ last.val = NoNode /\ last.reqs = << >>
        /\ (last.scope # Container /\ OwnAccepted(last.scope, last.filter) # {}) =>
               /\ last.ok
               /\ regs[last.val.reg].owner = last.scope
               /\ regs[last.val.reg].implementation = "A"

\* the child 1 has resolved its own A, and then the resolve on the
\* Container, which expects A to be scoped, has raised
C24_Witness ==
    /\ IsResolve(last) /\ last.scope = Container
    /\ last.exc = "NeedsScopedRegistrationError"
    /\ \E r \in Ids : regs[r].owner = 1 /\ scoped_instances[1][r] # NoNode

----------------------------------------------------------------------------
(* Explicit decorator positions.                                            *)

\* the decorators around the instance of the call, outermost first
OuterToInner(c) == [i \in 1..Len(Decs(c)) |-> Decs(c)[Len(Decs(c)) + 1 - i]]

\* the decorators of the call were all registered on one scope
OneStore(c) == \A i, j \in 1..Len(Decs(c)) : Decs(c)[i].owner = Decs(c)[j].owner

(* C25 - the decorators around a built instance are, from the outermost to  *)
(* the innermost, in ascending position: the decorator with the lowest      *)
(* position is the outermost and the one with the highest position wraps    *)
(* the base instance.                                                       *)
C25_OuterToInnerAscending ==
    (BuiltDecorated(last) /\ OneStore(last)) =>
        \A i, j \in 1..Len(Decs(last)) :
            i < j => OuterToInner(last)[i].position <= OuterToInner(last)[j].position

(* C25, amended - among the decorators registered on one scope the order    *)
(* from the outermost to the innermost is descending position: the          *)
(* decorator with the highest position is the outermost and the one with    *)
(* the lowest position wraps the base instance; among equal positions the   *)
(* one registered first is the outer one.                                   *)
C25_OuterToInnerDescending ==
    BuiltDecorated(last) =>
        \A i, j \in 1..Len(Decs(last)) :
            (i < j /\ OuterToInner(last)[i].owner = OuterToInner(last)[j].owner) =>
                LET x == OuterToInner(last)[i]
                    y == OuterToInner(last)[j]
                IN \/ x.position > y.position
                   \/ x.position = y.position /\ x.index < y.index

\* an instance built on the Container whose outermost decorator has a
\* higher position than the decorator that wraps the base instance
C25_Witness ==
    /\ BuiltDecorated(last) /\ last.scope = Container /\ Len(Decs(last)) >= 2
    /\ OuterToInner(last)[1].position > OuterToInner(last)[Len(Decs(last))].position

----------------------------------------------------------------------------
(* Registration ids.                                                        *)

(* C26 - register returns the id of the registration it has created, and a  *)
(* later resolve with the filter r.id == reg_id, made on a scope that sees  *)
(* the registration, builds exactly that registration.                      *)
C26_RegisterReturnsId ==
    /\ (last.op = "register" /\ last.ok) => reg_id = registration_id(Len(regs))
    /\ (IsResolve(last) /\ last.filter = IdFilter
          /\ regs[Len(regs)].owner \in AncestorsOrSelf(last.scope)) =>
           last.ok /\ last.val.reg = Len(regs)

----------------------------------------------------------------------------
(* Bundles.                                                                 *)

\* the two bundles share what decides that a bundle has run: the instance of
\* an OnlyRunOncePerInstanceBundle, the class of an OnlyRunOncePerClassBundle
SameBundle(b1, b2) ==
    IF BundleClass(b1) = "I" THEN b1 = b2 ELSE BundleClass(b1) = BundleClass(b2)

\* the i-th apply_bundle call ran the apply body for the same bundle and the
\* same container as the j-th call
RanFor(i, j) ==
    /\ apply_calls[i].ran
    /\ SameBundle(apply_calls[i].bundle, apply_calls[j].bundle)
    /\ apply_calls[i].container = apply_calls[j].container

(* C29 - over any sequence of apply_bundle calls the apply body runs at     *)
(* most once per bundle instance (per bundle class) and container, and a    *)
(* call is skipped only if the body has run before for the same bundle and  *)
(* the same container: the application to another container runs.           *)
C29_RunsOncePerContainer ==
    \A j \in 1..Len(apply_calls) :
        IF apply_calls[j].ran
        THEN \A i \in 1..(j - 1) : ~RanFor(i, j)
        ELSE \E i \in 1..(j - 1) : RanFor(i, j)

----------------------------------------------------------------------------
(* Implementation types.                                                    *)

\* the registrations that can be reached through the type st
ReachedThrough(st) ==
    {r \in Ids : regs[r].service_type = st \/ regs[r].implementation = st}

\* how often the id r is in the deque dq
Occurrences(dq, r) == Cardinality({i \in 1..Len(dq) : dq[i] = r})

(* C27 - register(S, Impl) files one registration under S and under Impl:   *)
(* a resolve of either type builds the most recent registration made for    *)
(* it, and for a singleton registration every resolve, through S or through *)
(* Impl, returns the instance that was handed out before.                   *)
C27_ServiceAndImplementationShareInstance ==
    /\ \A r \in Ids :
           /\ Occurrences(registry[regs[r].owner][regs[r].service_type], r) = 1
           /\ Occurrences(registry[regs[r].owner][regs[r].implementation], r) = 1
    /\ (IsResolve(last) /\ ReachedThrough(last.st) # {}) =>
           /\ last.ok /\ last.val.reg = Max(ReachedThrough(last.st))
           /\ regs[last.val.reg].lifespan = singleton =>
                  \A x \in handed : x.reg = last.val.reg => x = last.val

----------------------------------------------------------------------------
(* Cached nodes in the dependency graph.                                    *)

\* a call that returned a graph
GraphReturned == last.op \in {"resolve", "resolve_async"} /\ last.ok

\* the requests of the last call that were served from a cache
Hits == {last.reqs[i] : i \in {j \in 1..Len(last.reqs) : last.reqs[j].hit}}

\* every node that hangs in a graph with these children, the nodes under a
\* decorated node too
RECURSIVE Below(_)
Below(children) ==
    UNION {{children[i]} \cup Below(children[i].children) : i \in 1..Len(children)}

\* the service types that the instance of the registration r depended on
\* when it was built: the parameters of its implementation, and theirs
RECURSIVE DependedOn(_)
DependedOn(r) ==
    LET deps == ImplDeps(regs[r].implementation) IN
    UNION {{deps[i]} \cup UNION {DependedOn(d) : d \in {x \in Ids :
                                      regs[x].service_type = deps[i]}} :
           i \in 1..Len(deps)}

\* no node of the returned graph was decorated
Undecorated == \A n \in Below(last.children) : n.decs = << >>

(* C28 - in every call that serves a registration from a cache the cached   *)
(* node hangs in the returned graph, and where no node of the graph is      *)
(* decorated the root reports the service type of the cached node and every *)
(* service type its instance depended on when it was built.                 *)
C28_CachedNodeHangsInTheGraph ==
    GraphReturned =>
        \A q \in Hits :
            /\ q.inst \in Below(last.children)
            /\ Undecorated =>
                   /\ has_dependant_service_type(last.children, regs[q.reg].service_type)
                   /\ \A st \in DependedOn(q.reg) :
                          has_dependant_service_type(last.children, st)

\* C28 as stated: whatever the graph holds, the root reports every service
\* type that an instance served from a cache depended on
C28_RootReportsWhatTheCachedInstanceDependedOn ==
    GraphReturned =>
        \A q \in Hits : \A st \in DependedOn(q.reg) :
            has_dependant_service_type(last.children, st)

\* C is resolved, its B comes from a cache, and the root reports the A that
\* B depended on
C28_Witness ==
    /\ GraphReturned /\ last.st = "C" /\ ~last.collection /\ Undecorated
    /\ \E q \in Hits : /\ regs[q.reg].service_type = "B"
                        /\ "A" \in DependedOn(q.reg)
                        /\ q.inst \in Below(last.children)
                        /\ has_dependant_service_type(last.children, "A")

----------------------------------------------------------------------------
(* Parallel callers.                                                        *)

\* the builds that a call finished in a step from c to cn: the entries that
\* its requests gained and that did not come from a cache
FinishedIn(c, cn) ==
    IF c.active /\ cn.active /\ Len(cn.reqs) > Len(c.reqs)
    THEN {cn.reqs[i] : i \in {j \in (Len(c.reqs) + 1)..Len(cn.reqs) : ~cn.reqs[j].hit}}
    ELSE {}

\* the node that the caches single and sc hold for the registration r as
\* seen from scope s
CachedFor(r, s, single, sc) ==
    IF regs[r].lifespan = singleton THEN single[r] ELSE sc[s][r]

\* what a step does in which the call that goes from c to cn finishes builds
PutKeepsLast(c, cn) ==
    \A q \in FinishedIn(c, cn) :
        regs[q.reg].lifespan >= scoped =>
            LET before == CachedFor(q.reg, c.scope, singletons, scoped_instances)
                after == CachedFor(q.reg, c.scope, singletons', scoped_instances')
            IN after = q.inst /\ before # after

\* both callers asked for A on the same scope and both built it: neither
\* found it in a cache, and both builds are finished
BothBuilt ==
    /\ acall.active /\ peer.active
    /\ acall.scope = peer.scope /\ acall.st = "A" /\ peer.st = "A"
    /\ acall.tasks[1].status = "done" /\ peer.tasks[1].status = "done"
    /\ \A c \in {acall, peer} : \A i \in 1..Len(c.reqs) : ~c.reqs[i].hit

(* C30 - when a resolve_async call finishes the build of a scoped or        *)
(* singleton registration, the cache holds the node of that build from then *)
(* on, whether or not the other caller's build of the same registration had *)
(* stored its node before; and when two callers on one scope have both      *)
(* built the registration, it was activated for each, the callers have     *)
(* different instances and the cache holds one of the two.                  *)
C30_CacheKeepsTheNodeWrittenLast ==
    /\ [][PutKeepsLast(acall, acall') /\ PutKeepsLast(peer, peer')]_vars
    /\ [](BothBuilt =>
              /\ acts[1] >= 2
              /\ acall.tasks[1].val # peer.tasks[1].val
              /\ CachedFor(1, acall.scope, singletons, scoped_instances)
                     \in {acall.tasks[1].val, peer.tasks[1].val})

\* the two callers raced: both built A, and the caller whose build finished
\* first has an instance that is not the cached one
C30_Witness ==
    /\ BothBuilt
    /\ acts[1] = 2
    /\ \E c \in {acall, peer} :
           c.tasks[1].val # CachedFor(1, acall.scope, singletons, scoped_instances)

----------------------------------------------------------------------------
(* The sync and the async path.                                             *)

\* the registrations that a call chose, in the order of its builds
Chosen(reqs) == [i \in 1..Len(reqs) |-> reqs[i].reg]

(* C31 - with no async factory in the registry, a resolve_async call ends   *)
(* as resolve would have ended in its place: the same exception or the same *)
(* value, the same registrations chosen, the same children of the root, and *)
(* the same nodes in the caches, activations and finalizers.                *)
C31_AsyncEndsAsSync ==
    last.op = "resolve_async" =>
        /\ last.ok = twin.ok
        /\ last.exc = twin.exc
        /\ last.ok => /\ last.val = twin.val
                      /\ Chosen(last.reqs) = Chosen(twin.reqs)
                      /\ last.children = twin.children
        /\ singletons = twin.single
        /\ scoped_instances = twin.scoped
        /\ acts = twin.acts
        /\ finalizers = twin.finalizers

----------------------------------------------------------------------------
(* Builds that raise.                                                       *)

\* a resolve or resolve_async call that raised
CallRaised == last.op \in {"resolve", "resolve_async"} /\ ~last.ok

\* the registrations whose build the last call began and did not finish:
\* the log has steps of the build but not the one that stores its node
RaisedBuilds ==
    {last.log[i].reg : i \in {j \in 1..Len(last.log) :
        \A k \in 1..Len(last.log) :
            last.log[k].b = last.log[j].b => last.log[k].kind \notin {"cache", "cached"}}}

\* the tiers that the last call looked in hold no node of the registration r
NowhereCached(r) ==
    /\ singletons[r] = NoNode
    /\ scoped_instances[last.scope][r] = NoNode
    /\ last.cur[r] = NoNode

\* the node n of the registration r lies in the tier of its lifespan
InItsTier(r, n) ==
    /\ regs[r].lifespan = singleton => singletons[r] = n
    /\ regs[r].lifespan = scoped => scoped_instances[last.scope][r] = n
    /\ regs[r].lifespan = once_per_graph => last.cur[r] = n

(* C32 - after a call in which a build raised, the per-call cache, the      *)
(* scoped cache of the resolving scope and the singleton cache hold no node *)
(* of a registration whose build raised, and the nodes of the builds that   *)
(* the call completed lie in the tiers of their lifespans.                  *)
C32_RaisedBuildLeavesNoEntry ==
    CallRaised =>
        /\ RaisedBuilds # {}
        /\ \A r \in RaisedBuilds : NowhereCached(r)
        /\ \A i \in 1..Len(last.reqs) :
               ~last.reqs[i].hit => InItsTier(last.reqs[i].reg, last.reqs[i].inst)


----------------------------------------------------------------------------
(* Registrations that need themselves: a registry in which A is registered  *)
(* twice, each time as A, ASelf or AB, the second time on the Container or  *)
(* on scope 1, and B once; pre-configurations with one parameter.           *)

CycleScopes == {Container, 1}

SetUpsCycle ==
    {<<NewRegistration(Container, i1, l1, NoName, NoTeardown),
       NewRegistration(o2, i2, l2, NoName, NoTeardown),
       NewRegistration(Container, "B", lb, NoName, NoTeardown)>> :
        i1 \in {"A", "ASelf", "AB"}, i2 \in {"A", "ASelf", "AB"},
        l1 \in {transient, once_per_graph, scoped, singleton},
        l2 \in {transient, singleton}, o2 \in CycleScopes,
        lb \in {transient, singleton}}

InitCycle ==
    /\ regs \in SetUpsCycle
    /\ registry = register_all(EmptyRegistry, regs, 1)
    /\ InitCaches

PreConfigureCycle ==
    /\ Len(pcs) < MaxHookDecs
    /\ \E st \in {"A", "B"}, dep \in {"A", "B"} :
           PreConfigure(Container, <<st>>, FALSE, FALSE, <<dep>>)

ResolveCycle ==
    \E s \in CycleScopes, st \in {"A", "B"}, collection \in BOOLEAN :
        Resolve(s, st, collection, DefaultFilter)

NextCycle == PreConfigureCycle \/ ResolveCycle

SpecCycle == InitCycle /\ [][NextCycle]_vars

\* the service types that the build of registration r looks up in scope s:
\* the parameters of its pending pre-configurations and of its implementation
Requested(s, r) ==
    UNION {{pcs[c].deps[i] : i \in 1..Len(pcs[c].deps)} :
              c \in {find_pre_configurations(pcs, pre_configurations, s, r)[j] :
                        j \in 1..Len(find_pre_configurations(pcs, pre_configurations, s, r))}}
    \cup {ImplDeps(regs[r].implementation)[i] :
             i \in 1..Len(ImplDeps(regs[r].implementation))}

\* the registrations that the build of r builds for its parameters
Needs(s, r) ==
    {find_registration(regs, registry, s, t, DefaultFilter) : t \in Requested(s, r)}
        \ {NoRegistration}

\* the registrations built below r, at any depth
Needed(s, r) ==
    LET n1 == Needs(s, r)
        n2 == n1 \cup UNION {Needs(s, x) : x \in n1}
    IN n2 \cup UNION {Needs(s, x) : x \in n2}

\* a build of r in scope s finds a node in the caches of the scope chain or
\* among the singletons
Held(s, r) == find_scoped_node(scoped_instances, s, r) # NoNode \/ singletons[r] # NoNode

\* the registrations that a build of r in scope s builds: none when the node
\* of r is found in a cache
Descends(s, r) == IF Held(s, r) THEN {} ELSE Needs(s, r)

Descent(s, r) ==
    LET n1 == Descends(s, r)
        n2 == n1 \cup UNION {Descends(s, x) : x \in n1}
    IN n2 \cup UNION {Descends(s, x) : x \in n2}

\* r is built again while it is being built
OnCycle(s, r) == r \in Descent(s, r)

\* the build of r comes to a registration that is built while it is being built
Cyclic(s, r) == \E x \in {r} \cup Descent(s, r) : OnCycle(s, x)

\* r depends, through the lookups of scope s, on its own service type
DependsOnOwnType(s, r) ==
    regs[r].service_type \in
        Requested(s, r) \cup UNION {Requested(s, x) : x \in Needed(s, r)}

\* the registrations that the root Dependency of the last call builds
Roots ==
    IF last.collection THEN {last.cands[i] : i \in 1..Len(last.cands)}
    ELSE IF last.cands = << >> THEN {} ELSE {Head(last.cands)}

Started33 == {last.log[i].reg : i \in 1..Len(last.log)}
Stored33 == {last.log[i].reg : i \in {j \in 1..Len(last.log) : last.log[j].kind = "cache"}}

C33_OwnTypeAndReturns ==
    /\ last.op = "resolve" /\ last.ok
    /\ \E r \in Started33 : DependsOnOwnType(last.scope, r) /\ r \in Stored33


----------------------------------------------------------------------------
(* Parameters with a value: A registered with or without a name (a named    *)
(* registration does not pass the default filter), the class B registered   *)
(* with or without a default value and a value factory for its parameter    *)
(* a: A, and CB, which needs B.                                             *)

ValueScopes == {Container, 1}

SetUpsValues ==
    {<<NewRegistration(Container, ia, la, na, NoTeardown),
       NewRegistration(Container, ib, lb, NoName, NoTeardown),
       NewRegistration(Container, "CB", transient, NoName, NoTeardown)>> :
        ia \in {"A", "AsyncA"}, la \in {transient, singleton}, na \in Names,
        ib \in {"B"} \cup ValueImpls, lb \in {transient, scoped}}

InitValues ==
    /\ regs \in SetUpsValues
    /\ registry = register_all(EmptyRegistry, regs, 1)
    /\ InitCaches

ResolveValues ==
    /\ ~acall.active
    /\ \E s \in ValueScopes, st \in Types : Resolve(s, st, FALSE, DefaultFilter)

ResolveAsyncValues ==
    \E s \in ValueScopes, st \in {"B", "C"} : ResolveAsync(s, st, FALSE)

NextValues == ResolveValues \/ ResolveAsyncValues \/ RunTask \/ WakeAny \/ Complete

SpecValues == InitValues /\ [][NextValues]_vars

\* the value the spec lets the parameter a: A of the implementation receive
\* without a lookup: the declared default under the default settings, the
\* constant of set_value, and none (EMPTY) otherwise
Receives(impl) ==
    CASE impl = "BDef" -> "DefaultA"
      [] impl = "BSet" -> "SetA"
      [] OTHER         -> EMPTY

ResolveReturned == last.op \in {"resolve", "resolve_async"}

\* the steps of the last call at which the parameters of an implementation
\* are resolved
ParameterSteps(impls) ==
    {i \in 1..Len(last.log) : /\ last.log[i].kind = "parameters"
                              /\ regs[last.log[i].reg].implementation \in impls}

(* C34 - a parameter whose value factory returns a value other than EMPTY   *)
(* (with the default settings: a parameter that declares a default value)   *)
(* receives that value, and between the start of the parameters and the     *)
(* activation nothing is looked up or built, whether or not a registration  *)
(* of the type passes the filter; when the value factory returns EMPTY the  *)
(* next step is the build of a registration of the type, or the call ends   *)
(* in CannotResolveError.                                                    *)
C34_ValueStopsTheLookup ==
    ResolveReturned =>
        /\ \A i \in ParameterSteps({"BDef", "BSet"}) :
               /\ i < Len(last.log)
               /\ last.log[i + 1] =
                      Ev(last.log[i].b, last.log[i].reg, "resolved", 0, NoDecorator)
        /\ Len(last.given) = Cardinality(ParameterSteps({"BDef", "BSet"}))
        /\ \A j \in 1..Len(last.given) :
               /\ last.given[j].parent_implementation \in {"BDef", "BSet"}
               /\ last.given[j].service_type = "A"
               /\ last.given[j].value = Receives(last.given[j].parent_implementation)
        /\ \A i \in ParameterSteps({"B", "BDefNo"}) :
               IF i = Len(last.log) THEN last.exc = "CannotResolveError"
               ELSE /\ last.log[i + 1].b # last.log[i].b
                    /\ regs[last.log[i + 1].reg].service_type = "A"

\* C resolved with a registration of A that passes the filter: B received the
\* default value of its parameter and A was never activated
C34_Witness ==
    /\ ResolveReturned /\ last.ok /\ last.st = "C"
    /\ regs[1].name = NoName /\ acts[1] = 0
    /\ regs[2].implementation = "BDef"
    /\ last.given = <<[parent_implementation |-> "BDef", service_type |-> "A",
                       value |-> "DefaultA"]>>
    /\ last.val.children[1].children = << >>


----------------------------------------------------------------------------
(* Registrations for particular parents: A registered twice, each time with *)
(* the default parent_node_filter or with implementation_type_is of the     *)
(* graph root, of B or of BDefNo, and the class B (a: A) registered as B or *)
(* as BDefNo.                                                               *)

ParentScopes == {Container, 1}
ParentNodeFilters == {default_parent_node_filter, RootImplementation, "B", "BDefNo"}

SetUpsParents ==
    {<<WithParentNodeFilter(NewRegistration(Container, "A", l1, NoName, NoTeardown), p1),
       WithParentNodeFilter(NewRegistration(Container, "A", l2, NoName, NoTeardown), p2),
       NewRegistration(Container, ib, lb, NoName, NoTeardown)>> :
        l1 \in {transient, singleton}, l2 \in {transient, singleton},
        p1 \in ParentNodeFilters, p2 \in ParentNodeFilters,
        ib \in {"B", "BDefNo"}, lb \in {transient, singleton}}

InitParents ==
    /\ regs \in SetUpsParents
    /\ registry = register_all(EmptyRegistry, regs, 1)
    /\ InitCaches

ResolveParents ==
    /\ ~acall.active
    /\ \E s \in ParentScopes, st \in {"A", "B"}, collection \in BOOLEAN :
           Resolve(s, st, collection, DefaultFilter)

ResolveAsyncParents ==
    \E s \in ParentScopes, st \in {"A", "B"}, collection \in BOOLEAN :
        ResolveAsync(s, st, collection)

NextParents == ResolveParents \/ ResolveAsyncParents \/ RunTask \/ Complete

SpecParents == InitParents /\ [][NextParents]_vars

\* the registrations of st that pass the default filter and whose
\* parent_node_filter accepts a node of implementation parent, in the order of
\* the lookup of scope s
AcceptedFor(s, st, parent) ==
    LET ok(r) == regs[r].parent_node_filter \in {default_parent_node_filter, parent}
    IN SelectSeq(find_registrations(regs, registry, s, st, DefaultFilter), ok)

\* the nodes that the last call added for its request: the children of the
\* graph root, or those of the sequence node of a collection
TopNodes ==
    IF last.children = << >> THEN << >>
    ELSE IF last.collection THEN last.children[1].children ELSE last.children

\* what the request of the last call is to give: every accepted registration
\* for a collection, else the first
TopExpected ==
    LET found == AcceptedFor(last.scope, last.st, RootImplementation) IN
    IF last.collection \/ found = << >> THEN found ELSE <<Head(found)>>

(* C35 - the node that a call adds under a requesting node, newly built or  *)
(* taken from a cache, is of a registration whose parent_node_filter        *)
(* accepts the requesting node (the graph root for the request of the call  *)
(* itself); each requester gets the first registration of the lookup order  *)
(* whose filter accepts it, and a request for which no filter accepts the   *)
(* requester ends in CannotResolveError.                                     *)
C35_ParentNodeFilterDecides ==
    ResolveReturned =>
        /\ last.ok =>
               /\ [i \in 1..Len(TopNodes) |-> TopNodes[i].reg] = TopExpected
               /\ \A i \in 1..Len(TopNodes) :
                      LET node == TopNodes[i]
                          parent == regs[node.reg].implementation
                      IN [j \in 1..Len(node.children) |-> node.children[j].reg]
                             = IF ImplDeps(parent) = << >> THEN << >>
                               ELSE <<Head(AcceptedFor(last.scope, "A", parent))>>
        /\ ~last.ok =>
               /\ last.exc = "CannotResolveError"
               /\ \/ TopExpected = << >> /\ ~last.collection
                  \/ /\ last.st = "B"
                     /\ AcceptedFor(last.scope, "A", regs[3].implementation) = << >>

\* the two registrations of A accept different parents, both are singletons
\* and cached, and the call for B got the one that accepts B while the call
\* for A before it got the other
C35_Witness ==
    /\ ResolveReturned /\ last.ok /\ last.st = "B" /\ ~last.collection
    /\ regs[1].parent_node_filter = "B"
    /\ regs[2].parent_node_filter = RootImplementation
    /\ regs[1].lifespan = singleton /\ regs[2].lifespan = singleton
    /\ singletons[1] # NoNode /\ singletons[2] # NoNode
    /\ last.children[1].children = <<singletons[1]>>
    /\ \E i \in 1..Len(last.reqs) : last.reqs[i].reg = 1 /\ last.reqs[i].hit


----------------------------------------------------------------------------
(* The parents of a node.  A DependencyNode is made when a registration is  *)
(* activated, so two nodes of the graph are one object iff they are equal;  *)
(* NoNode stands for the graph root as a parent.                            *)

\* the pairs <<parent, child>> of a graph: child is in the children of parent
RECURSIVE Edges(_, _)
Edges(parent, children) ==
    {<<parent, children[i]>> : i \in 1..Len(children)}
        \cup UNION {Edges(children[i], children[i].children) : i \in 1..Len(children)}

(* C36 - in the graph a call returns no node is in the children of two      *)
(* different parents: the node added on a cache hit is a node of its own.   *)
C36_NoNodeUnderTwoParents ==
    GraphReturned =>
        \A e1 \in Edges(NoNode, last.children), e2 \in Edges(NoNode, last.children) :
            e1[2] = e2[2] => e1[1] = e2[1]


----------------------------------------------------------------------------
(* Collections of a type nobody registered: registrations of A, of G[int]   *)
(* and of G, with or without a name, and requests for one object or for a   *)
(* list with the default filter or with_name("n").                          *)

RegisterSome ==
    /\ Len(regs) < MaxGenericRegs
    /\ \E s \in GenericScopes, impl \in {"A", "GInt", "GFallback"}, name \in Names :
           Register(s, impl, transient, name, NoTeardown)

ResolveSome ==
    \E s \in GenericScopes, st \in {"A", "G[int]", "G"}, collection \in BOOLEAN,
       f \in {DefaultFilter, NamedFilter} : Resolve(s, st, collection, f)

NextEmpty == RegisterSome \/ ResolveSome

SpecEmpty == InitLookup /\ [][NextEmpty]_vars

\* the last call asked for a list of a type of which no registration passed
\* the filter, in the scope or above it
EmptyListAsked ==
    /\ last.op = "resolve" /\ last.collection
    /\ find_registrations(regs, registry, last.scope, last.st, last.filter) = << >>

\* the same request for one object of the type, made in the state the call left
ElementAsked == resolve(last.scope, last.st, FALSE, last.filter)

\* the registrations of the origin of a parameterized generic type that pass
\* the filter
OriginFound ==
    IF last.st \in GenericAliases
    THEN find_registrations(regs, registry, last.scope, __origin__(last.st), last.filter)
    ELSE << >>

(* C37 - as the spec states it: a request for a collection of a type with   *)
(* no registration passing the filter returns the empty collection, and the *)
(* request for the type itself raises CannotResolveError in the same state. *)
C37_EmptyListButElementRaises ==
    EmptyListAsked =>
        /\ last.ok /\ last.val = << >>
        /\ ~ElementAsked.ok /\ ElementAsked.exc = "CannotResolveError"

(* C37 - amended: the collection is empty and no error is raised; the       *)
(* request for the type itself raises CannotResolveError unless the type is *)
(* a parameterized generic type of whose origin a registration passes the   *)
(* filter, which is then built.                                              *)
C37_EmptyListAndElementFallsBack ==
    EmptyListAsked =>
        /\ last.ok /\ last.val = << >> /\ last.children = <<SequenceNode(<< >>)>>
        /\ \A r \in RegIds : last.cur[r] = NoNode
        /\ IF OriginFound = << >>
           THEN ~ElementAsked.ok /\ ElementAsked.exc = "CannotResolveError"
           ELSE ElementAsked.ok /\ ElementAsked.val.reg = Head(OriginFound)

\* an empty list of G[int] while a registration of G is there
C37_Witness ==
    /\ EmptyListAsked /\ last.st = "G[int]" /\ last.val = << >> /\ last.ok
    /\ OriginFound # << >>
    /\ \E r \in 1..Len(regs) : regs[r].service_type = "A"

\* an empty list of A, whose registration has a name
C37_NamedOnly ==
    /\ EmptyListAsked /\ last.st = "A" /\ last.filter = DefaultFilter /\ last.ok
    /\ \E r \in 1..Len(regs) : regs[r].service_type = "A" /\ regs[r].name = "n"


----------------------------------------------------------------------------
(* What the container hands out.                                            *)

\* the scopes whose registrations and decorators made the node: the owner of
\* its registration and the owners of the decorators around its object
MadeBy(n) ==
    (IF n.reg = 0 THEN {} ELSE {regs[n.reg].owner})
        \cup {n.decs[i].owner : i \in 1..Len(n.decs)}

\* A registered on the container and again on scope 1, B (a: A) on the
\* container; decorators are registered on scope 1
LeakScopes == {Container, 1}

SetUpsLeak ==
    {<<NewRegistration(Container, "A", la, NoName, NoTeardown),
       NewRegistration(1, "A", transient, NoName, NoTeardown),
       NewRegistration(Container, "B", lb, NoName, NoTeardown)>> :
        la \in {transient, singleton},
        lb \in {transient, once_per_graph, scoped, singleton}}

InitLeak ==
    /\ regs \in SetUpsLeak
    /\ registry = register_all(EmptyRegistry, regs, 1)
    /\ InitCaches

RegisterDecoratorLeak ==
    /\ decorator_count < MaxHookDecs
    /\ \E st \in {"A", "B"} : RegisterDecorator(1, st, 0)

ResolveLeak ==
    \E s \in LeakScopes, st \in {"A", "B"}, collection \in BOOLEAN :
        Resolve(s, st, collection, DefaultFilter)

NextLeak == RegisterDecoratorLeak \/ ResolveLeak

SpecLeak == InitLeak /\ [][NextLeak]_vars

(* C38 - no object that a resolve call on the container returns holds,      *)
(* directly or through the objects it holds, an object made by a            *)
(* registration or a decorator of a child scope.                            *)
C38_ContainerHandsOutItsOwn ==
    GraphReturned /\ last.scope = Container =>
        \A n \in Below(last.children) : MadeBy(n) \subseteq {Container}


----------------------------------------------------------------------------
(* A scope that is left more than once.                                     *)

\* the teardown calls of an exit: the registration and the instance handed
\* to its scoped_teardown
TornDown(call) ==
    {<<call.log[i].reg, call.log[i].inst>> :
        i \in {j \in 1..Len(call.log) : call.log[j].kind = "teardown"}}

ScopeLeft(call) == call.op \in {"exit", "aexit"}

(* C39 - a scope that is left again, as a sync or as an async context       *)
(* manager, does not call a scoped_teardown with an instance that the exit  *)
(* before it already called it with.                                        *)
C39_TeardownAtMostOnce ==
    [][ScopeLeft(last) /\ ScopeLeft(last') /\ last'.scope = last.scope
           => TornDown(last) \cap TornDown(last') = {}]_vars


----------------------------------------------------------------------------
(* Callbacks that raise: two scoped registrations of A, made by a generator *)
(* factory or a context manager whose cleanup may raise, with a             *)
(* scoped_teardown that may raise.                                          *)

RaiseScopes == {1, 2}

SetUpsRaise ==
    {<<NewRegistration(Container, i1, scoped, NoName, t1),
       NewRegistration(Container, i2, scoped, NoName, t2)>> :
        i1 \in {"GenA", "GenARaises", "CmARaises"}, i2 \in {"GenA", "GenARaises"},
        t1 \in {NoTeardown, "sync", RaisingTeardown},
        t2 \in {NoTeardown, "sync", RaisingTeardown}}

InitRaise ==
    /\ regs \in SetUpsRaise
    /\ registry = register_all(EmptyRegistry, regs, 1)
    /\ InitCaches

ResolveRaise == \E s \in RaiseScopes : Resolve(s, "A", TRUE, DefaultFilter)

ExitRaise == \E s \in RaiseScopes : Exit(s)

AsyncExitRaise == \E s \in RaiseScopes : AsyncExit(s)

NextRaise == ResolveRaise \/ ExitRaise \/ AsyncExitRaise

SpecRaise == InitRaise /\ [][NextRaise]_vars

\* the callbacks of the scope that the last call left: its teardowns of the
\* kinds the exit runs, and its finalizers
CallbacksOf(call) ==
    Len(teardowns[call.scope]["sync"])
        + (IF call.op = "aexit" THEN Len(teardowns[call.scope]["async"]) ELSE 0)
        + Len(finalizers[call.scope])

(* C40 - an exit calls every teardown and every finalizer of the scope,     *)
(* also when one of them raises.                                            *)
C40_RemainingCallbacksStillRun ==
    ScopeLeft(last) => Len(last.log) = CallbacksOf(last)

====
